---- MODULE Spec2Model ----
(***************************************************************************)
(* UDP multimedia streaming: packet framing, the senders' chunking and     *)
(* the receivers' reassembly, modelled from                                *)
(*   assignments/udp_streaming/streaming_server.py  (UDPStreamingServer)   *)
(*   assignments/udp_streaming/streaming_client.py  (UDPStreamingClient)   *)
(*   assignments/udp_streaming/advanced_video_server.py                    *)
(*   udp_streaming/advanced_video_client.py                                *)
(*                                                                         *)
(* Byte strings are sequences of items [k, v, n]:                          *)
(*   k = "b"  one literal byte of value v (n = 1)                          *)
(*   k = "f"  the n bytes of the source file that start at offset v        *)
(*   k = "j"  the n bytes of a JSON text whose 'size' member is v          *)
(*   k = "x"  n bytes cut out of a JSON text (not valid JSON)              *)
(* Adjacent slices of the source file are merged, so two byte strings made *)
(* of file data are equal exactly when they hold the same file bytes in    *)
(* the same order.  Integers are below 2^31 (the 64-bit header fields are  *)
(* packed with their high four bytes zero).                                *)
(***************************************************************************)
EXTENDS Integers, Sequences, FiniteSets, TLC

VARIABLES
    pc,             \* position of the driver of the running specification
    rx,             \* the receiver under test: "basic" (UDPStreamingClient) or
                    \* "adv" (AdvancedUDPVideoClient with its VideoBuffer)
    args,           \* codec: the arguments given to the packet builder
    wire,           \* codec: the datagram built from args
    parsed,         \* codec: what the decoder returned for wire
    uc,             \* UDPStreamingClient: its fields, the bytes of its buffer file
    vb,             \* VideoBuffer: its fields, the bytes of its buffer file
    ac,             \* AdvancedUDPVideoClient: streaming flag and _receive_stream locals
    arrivals,       \* history: the sequence numbers handed to the receiver so far
    now,            \* time.time(), in milliseconds
    monitors,       \* AdvancedUDPVideoServer.network_monitors: address -> NetworkMonitor
    streams,        \* the send loops (threads) of the server: their locals
    sent,           \* address -> the datagrams the server sent to it, in order
    rpos,           \* how many datagrams of sent the client has received
    steps,          \* history: the number of steps the driver has taken
    held,           \* the datagrams the network holds back, by position in the stream
    rr,             \* RTPReceiver: its fields, and the list its last call returned
    session,        \* RTSPSession: its state, and the last call of transition_to
    threads         \* AdvancedUDPVideoClient: the threads stream_video started, in order

codecVars == <<args, wire, parsed>>
recvVars  == <<uc, vb, ac, arrivals>>
sendVars  == <<now, monitors, streams, sent, rpos, steps>>
vars == <<pc, rx, codecVars, recvVars, sendVars, held, rr, session, threads>>

----------------------------------------------------------------------------
(* Python bytes *)

Byte(b) == [k |-> "b", v |-> b, n |-> 1]

Bytes(codes) == [i \in 1..Len(codes) |-> Byte(codes[i])]

\* file.read(len) with the file position at off
FileSlice(off, len) == IF len <= 0 THEN <<>> ELSE <<[k |-> "f", v |-> off, n |-> len]>>

\* json.dumps(...).encode('utf-8') of a dict whose 'size' member is size
JsonBody(size) == <<[k |-> "j", v |-> size, n |-> 40]>>

\* the bytes of {"size": 5}, a JSON object without a 'filename' member, for a
\* size of one digit
JsonSizeOnly(size) == <<[k |-> "s", v |-> size, n |-> 11]>>

\* None: a value not set, a dict member that is absent
None == 0 - 1

\* the bytes of {"type": "error", "message": ...}, a JSON object without a
\* 'size' member
JsonError == <<[k |-> "e", v |-> 0, n |-> 60]>>

\* json.loads(data.decode('utf-8')): the dict, or the exception it raises
json_loads(data) ==
    IF Len(data) = 1 /\ data[1].k = "j"
    THEN [error |-> FALSE, size |-> data[1].v, filename |-> TRUE]
    ELSE IF Len(data) = 1 /\ data[1].k = "s"
    THEN [error |-> FALSE, size |-> data[1].v, filename |-> FALSE]
    ELSE IF Len(data) = 1 /\ data[1].k = "e"
    THEN [error |-> FALSE, size |-> None, filename |-> FALSE]
    ELSE [error |-> TRUE]

RECURSIVE BLen(_)
BLen(bs) == IF bs = <<>> THEN 0 ELSE Head(bs).n + BLen(Tail(bs))

\* a + b
Cat(a, b) ==
    IF a = <<>> THEN b
    ELSE IF b = <<>> THEN a
    ELSE LET x == a[Len(a)]
             y == Head(b)
         IN  IF x.k = "f" /\ y.k = "f" /\ x.v + x.n = y.v
             THEN SubSeq(a, 1, Len(a) - 1) \o <<[k |-> "f", v |-> x.v, n |-> x.n + y.n]>> \o Tail(b)
             ELSE a \o b

\* the first m bytes of one item
ItemTake(it, m) ==
    IF it.k = "f" THEN [k |-> "f", v |-> it.v, n |-> m]
    ELSE [k |-> "x", v |-> 0, n |-> m]

\* one item without its first m bytes
ItemDrop(it, m) ==
    IF it.k = "f" THEN [k |-> "f", v |-> it.v + m, n |-> it.n - m]
    ELSE [k |-> "x", v |-> 0, n |-> it.n - m]

\* bs[:m]
RECURSIVE BTake(_, _)
BTake(bs, m) ==
    IF m <= 0 \/ bs = <<>> THEN <<>>
    ELSE IF Head(bs).n <= m THEN <<Head(bs)>> \o BTake(Tail(bs), m - Head(bs).n)
    ELSE <<ItemTake(Head(bs), m)>>

\* bs[m:]
RECURSIVE BDrop(_, _)
BDrop(bs, m) ==
    IF m <= 0 \/ bs = <<>> THEN bs
    ELSE IF Head(bs).n <= m THEN BDrop(Tail(bs), m - Head(bs).n)
    ELSE <<ItemDrop(Head(bs), m)>> \o Tail(bs)

\* bs[a:b]
Slice(bs, a, b) == BTake(BDrop(bs, a), b - a)

\* bs.startswith(prefix)
StartsWith(bs, prefix) == BLen(bs) >= BLen(prefix) /\ BTake(bs, BLen(prefix)) = prefix

AllLiteral(bs) == \A i \in 1..Len(bs) : bs[i].k = "b"

----------------------------------------------------------------------------
(* struct *)

\* struct.pack('!B', x)
PackB(x) == <<Byte(x % 256)>>

\* struct.pack('!I', x)
PackI(x) == <<Byte((x \div 16777216) % 256), Byte((x \div 65536) % 256),
              Byte((x \div 256) % 256), Byte(x % 256)>>

\* struct.pack('!Q', x)
PackQ(x) == <<Byte(0), Byte(0), Byte(0), Byte(0)>> \o PackI(x)

\* struct.unpack('!I', b)[0] of four literal bytes
UnpackI(b) == b[1].v * 16777216 + b[2].v * 65536 + b[3].v * 256 + b[4].v

\* struct.unpack('!Q', b)[0] of eight literal bytes
UnpackQ(b) == UnpackI(SubSeq(b, 5, 8))

\* struct.calcsize('!BII QQ')
HeaderSize == 1 + 4 + 4 + 8 + 8

\* struct.pack('!BII QQ', t, s, l, bs, ts)
PackBIIQQ(t, s, l, bs, ts) == PackB(t) \o PackI(s) \o PackI(l) \o PackQ(bs) \o PackQ(ts)

\* struct.unpack('!BII QQ', buf): raises struct.error unless len(buf) is the
\* size of the format
UnpackBIIQQ(buf) ==
    IF BLen(buf) # HeaderSize \/ ~AllLiteral(buf) THEN [error |-> TRUE]
    ELSE [error |-> FALSE,
          t  |-> buf[1].v,
          s  |-> UnpackI(SubSeq(buf, 2, 5)),
          l  |-> UnpackI(SubSeq(buf, 6, 9)),
          bs |-> UnpackQ(SubSeq(buf, 10, 17)),
          ts |-> UnpackQ(SubSeq(buf, 18, 25))]

\* ord(c) of the characters the programs use as packet types
Ord(c) == CASE c = "D" -> 68 [] c = "E" -> 69 [] c = "I" -> 73 [] c = "X" -> 88

\* chr(b) / bytes([b]).decode('ascii')
Chr(b) == CASE b = 68 -> "D" [] b = 69 -> "E" [] b = 73 -> "I" [] b = 88 -> "X"
            [] OTHER -> "other"

\* packet_type.encode('ascii')[:1]: the first character of the type name
FirstChar(packet_type) ==
    CASE packet_type = "D" -> "D" [] packet_type = "E" -> "E"
      [] packet_type = "INFO" -> "I" [] packet_type = "ERROR" -> "E"

----------------------------------------------------------------------------
(* UDPStreamingServer: packet builders *)

\* mutant: the header carries the bytes sent including this packet's
create_data_packet_sent_after(seq_num, data, bytes_sent, total_size) ==
    PackBIIQQ(Ord("D"), seq_num, BLen(data), bytes_sent + BLen(data), total_size) \o data

create_data_packet(seq_num, data, bytes_sent, total_size) ==
    PackBIIQQ(Ord("D"), seq_num, BLen(data), bytes_sent, total_size) \o data

\* mutant: the end marker carries the sequence after the next one
create_end_packet_next(seq_num) == PackBIIQQ(Ord("E"), seq_num + 1, 0, 0, 0)

create_end_packet(seq_num) == PackBIIQQ(Ord("E"), seq_num, 0, 0, 0)

(* UDPStreamingClient.parse_data_packet *)

parse_data_packet(data) ==
    IF BLen(data) < 21 THEN [type |-> "INVALID"]
    ELSE LET u == UnpackBIIQQ(BTake(data, 21))
         IN  IF u.error THEN [type |-> "INVALID"]
             ELSE IF Chr(u.t) = "D"
                  THEN [type |-> "DATA", sequence |-> u.s, data_size |-> u.l,
                        bytes_sent |-> u.bs, total_size |-> u.ts,
                        data |-> Slice(data, 21, 21 + u.l)]
             ELSE IF Chr(u.t) = "E" THEN [type |-> "END", sequence |-> u.s]
             ELSE [type |-> "UNKNOWN"]

(* AdvancedUDPVideoServer.create_packet *)

create_packet(packet_type, seq_num, data, total_size, bytes_sent) ==
    PackB(Ord(FirstChar(packet_type))) \o PackI(seq_num) \o PackI(BLen(data))
        \o PackQ(bytes_sent) \o PackQ(total_size) \o data

(* AdvancedUDPVideoClient.parse_packet; None is [type |-> "None"] *)

parse_packet(packet) ==
    IF BLen(packet) < 25 THEN [type |-> "None"]
    ELSE IF ~AllLiteral(BTake(packet, 25)) \/ packet[1].v >= 128 THEN [type |-> "None"]
    ELSE LET data_size == UnpackI(SubSeq(packet, 6, 9))
         IN  [type       |-> Chr(packet[1].v),
              seq        |-> UnpackI(SubSeq(packet, 2, 5)),
              data_size  |-> data_size,
              bytes_sent |-> UnpackQ(SubSeq(packet, 10, 17)),
              total_size |-> UnpackQ(SubSeq(packet, 18, 25)),
              data       |-> Slice(packet, 25, 25 + data_size)]

----------------------------------------------------------------------------
(* dict *)

EmptyDict == <<>>

\* d[k] = v
DictPut(d, k, v) == [x \in (DOMAIN d) \cup {k} |-> IF x = k THEN v ELSE d[x]]

\* d without key k (the effect of d.pop(k) on d)
DictPop(d, k) == [x \in (DOMAIN d) \ {k} |-> d[x]]

----------------------------------------------------------------------------
(* RTPReceiver *)

\* the receiver as __init__ leaves it; ready_packets is the list the last
\* call returned, returned the packets the single calls returned so far, runs
\* the number of long in-order runs received
RTPReceiver_init(buffer_size) ==
    [buffer_size          |-> buffer_size,
     buffer               |-> EmptyDict,
     expected_sequence    |-> None,
     highest_sequence     |-> None,
     packets_received     |-> 0,
     packets_lost         |-> 0,
     bytes_received       |-> 0,
     duplicate_packets    |-> 0,
     out_of_order_packets |-> 0,
     ready_packets        |-> <<>>,
     returned             |-> <<>>,
     runs                 |-> 0]

_sequence_greater(seq1, seq2) ==
    \/ (seq1 > seq2 /\ seq1 - seq2 < 32768)
    \/ (seq1 < seq2 /\ seq2 - seq1 > 32768)

_sequence_greater_equal(seq1, seq2) == seq1 = seq2 \/ _sequence_greater(seq1, seq2)

\* the while loop of receive_packet: the packets ready for playback leave
\* the buffer
RECURSIVE extract_ready(_)
extract_ready(r) ==
    IF r.expected_sequence \in DOMAIN r.buffer
    THEN extract_ready([r EXCEPT
             !.ready_packets     = Append(@, r.buffer[r.expected_sequence]),
             !.buffer            = DictPop(@, r.expected_sequence),
             !.expected_sequence = (@ + 1) % 65536])
    ELSE r

_clean_buffer(r) ==
    IF Cardinality(DOMAIN r.buffer) > r.buffer_size
    THEN LET min_sequence == (r.expected_sequence - r.buffer_size \div 2) % 65536
             to_remove == {seq_num \in DOMAIN r.buffer :
                              ~_sequence_greater_equal(seq_num, min_sequence)}
         IN  [r EXCEPT !.buffer = [x \in (DOMAIN @) \ to_remove |-> @[x]],
                       !.packets_lost = @ + Cardinality(to_remove)]
    ELSE r

\* receive_packet(packet); ready_packets is the list it returns
receive_packet(r, packet) ==
    LET seq_num == packet.sequence_number
    IN  IF seq_num \in DOMAIN r.buffer
        THEN [r EXCEPT !.duplicate_packets = @ + 1, !.ready_packets = <<>>]
        ELSE LET expected == IF r.expected_sequence = None THEN seq_num
                             ELSE r.expected_sequence
                 highest == IF r.highest_sequence = None
                               \/ _sequence_greater(seq_num, r.highest_sequence)
                            THEN seq_num ELSE r.highest_sequence
                 stored == [r EXCEPT
                     !.expected_sequence    = expected,
                     !.highest_sequence     = highest,
                     !.out_of_order_packets =
                         IF ~_sequence_greater_equal(seq_num, expected) THEN @ + 1 ELSE @,
                     !.buffer               = DictPut(@, seq_num, packet),
                     !.packets_received     = @ + 1,
                     !.bytes_received       = @ + packet.payload_len,
                     !.ready_packets        = <<>>]
             IN  _clean_buffer(extract_ready(stored))

\* n calls of receive_packet for the n packets that follow expected_sequence,
\* in sending order, while no buffered packet lies in their range and the
\* buffer is not over its size: each call stores its packet, returns it and
\* advances expected_sequence, and _clean_buffer finds nothing to do
receive_in_order(r, n, payload_len) ==
    [r EXCEPT !.expected_sequence = (@ + n) % 65536,
              !.highest_sequence  = (@ + n) % 65536,
              !.packets_received  = @ + n,
              !.bytes_received    = @ + n * payload_len,
              !.ready_packets     = <<>>,
              !.runs              = @ + 1]

\* the condition under which receive_in_order(r, n, ...) is what n calls do
in_order_applies(r, n) ==
    /\ r.expected_sequence # None
    /\ r.highest_sequence = (r.expected_sequence + 65535) % 65536
    /\ Cardinality(DOMAIN r.buffer) <= r.buffer_size
    /\ \A k \in DOMAIN r.buffer : (k + 65536 - r.expected_sequence) % 65536 > n

\* no RTP session: a receiver as constructed with the default buffer_size
RTPIdle == rr = RTPReceiver_init(50)

----------------------------------------------------------------------------
(* RTSPSession *)

\* self.valid_transitions.get(state, [])
valid_transitions_get(state) ==
    CASE state = "INIT"    -> {"READY"}
      [] state = "READY"   -> {"PLAYING", "INIT"}
      [] state = "PLAYING" -> {"READY"}
      [] OTHER             -> {}

\* mutant: every state name the session knows is a valid target
can_transition_to_known(s, new_state) == new_state \in {"INIT", "READY", "PLAYING"}

can_transition_to(s, new_state) == new_state \in valid_transitions_get(s.state)

\* the session as __init__ leaves it; clock is time.time(), requested and
\* returned are the argument and the result of the last transition_to
RTSPSession_init ==
    [state         |-> "INIT",
     last_activity |-> 0,
     clock         |-> 0,
     requested     |-> "none",
     returned      |-> FALSE]

transition_to(s, new_state) ==
    IF can_transition_to(s, new_state)
    THEN [s EXCEPT !.state = new_state, !.last_activity = s.clock,
                   !.requested = new_state, !.returned = TRUE]
    ELSE [s EXCEPT !.requested = new_state, !.returned = FALSE]

RTSPIdle == session = RTSPSession_init

----------------------------------------------------------------------------
(* UDPStreamingClient *)

playback_threshold_basic == 50000

\* the fields as request_media_file leaves them, with the buffer file just
\* opened by receive_stream; launches counts the runs of launch_media_player
\* that got past its guard, final_report the final progress reports printed
UDPStreamingClient_init ==
    [expected_size         |-> 0,
     received_bytes        |-> 0,
     packets_received      |-> 0,
     packets_buffer        |-> EmptyDict,
     sequence_expected     |-> 0,
     streaming_complete    |-> FALSE,
     media_player_launched |-> FALSE,
     receiving             |-> TRUE,
     buffer_file           |-> <<>>,
     launches              |-> 0,
     final_report          |-> 0]

launch_media_player(c) ==
    IF c.media_player_launched THEN c
    ELSE [c EXCEPT !.media_player_launched = TRUE, !.launches = @ + 1]

\* the while loop of handle_data_packet
RECURSIVE write_buffered(_)
write_buffered(c) ==
    IF c.sequence_expected \in DOMAIN c.packets_buffer
    THEN LET buffered_data == c.packets_buffer[c.sequence_expected]
         IN  write_buffered([c EXCEPT
                 !.packets_buffer    = DictPop(@, c.sequence_expected),
                 !.buffer_file       = Cat(@, buffered_data),
                 !.received_bytes    = @ + BLen(buffered_data),
                 !.sequence_expected = @ + 1])
    ELSE c

\* mutant: a packet ahead of the expected one is written at once
store_data_packet_ahead(c, seq_num, data) ==
    IF seq_num >= c.sequence_expected
    THEN write_buffered([c EXCEPT
             !.buffer_file       = Cat(@, data),
             !.received_bytes    = @ + BLen(data),
             !.packets_received  = @ + 1,
             !.sequence_expected = @ + 1])
    ELSE [c EXCEPT !.packets_buffer   = DictPut(@, seq_num, data),
                   !.packets_received = @ + 1]

\* mutant: a packet behind the expected one is written again
store_data_packet_behind(c, seq_num, data) ==
    IF seq_num <= c.sequence_expected
    THEN write_buffered([c EXCEPT
             !.buffer_file       = Cat(@, data),
             !.received_bytes    = @ + BLen(data),
             !.packets_received  = @ + 1,
             !.sequence_expected = IF seq_num = @ THEN @ + 1 ELSE @])
    ELSE [c EXCEPT !.packets_buffer   = DictPut(@, seq_num, data),
                   !.packets_received = @ + 1]

\* the if/else of handle_data_packet that writes or buffers the packet
store_data_packet(c, seq_num, data) ==
    IF seq_num = c.sequence_expected
    THEN write_buffered([c EXCEPT
             !.buffer_file       = Cat(@, data),
             !.received_bytes    = @ + BLen(data),
             !.packets_received  = @ + 1,
             !.sequence_expected = @ + 1])
    ELSE [c EXCEPT !.packets_buffer   = DictPut(@, seq_num, data),
                   !.packets_received = @ + 1]

handle_data_packet(c, packet_info) ==
    LET d == store_data_packet(c, packet_info.sequence, packet_info.data)
    IN  IF ~d.media_player_launched
           /\ d.received_bytes >= playback_threshold_basic
           /\ d.expected_size > 0
        THEN launch_media_player(d)
        ELSE d

\* the loop of receive_stream is left by break: the finally clause clears
\* receiving
leave_receive_loop(c) == [c EXCEPT !.receiving = FALSE]

\* one iteration of the loop of receive_stream for the datagram data
\* (b"ERROR:" is 69 82 82 79 82 58, b"INFO:" is 73 78 70 79 58)
receive_stream(c, data) ==
    IF StartsWith(data, Bytes(<<69, 82, 82, 79, 82, 58>>)) THEN leave_receive_loop(c)
    ELSE IF StartsWith(data, Bytes(<<73, 78, 70, 79, 58>>))
    THEN LET file_info == json_loads(BDrop(data, 5))
         IN  IF file_info.error \/ file_info.size = None THEN leave_receive_loop(c)
             ELSE IF ~file_info.filename
             THEN leave_receive_loop([c EXCEPT !.expected_size = file_info.size])
             ELSE [c EXCEPT !.expected_size = file_info.size]
    ELSE LET packet_info == parse_data_packet(data)
         IN  IF packet_info.type = "DATA" THEN handle_data_packet(c, packet_info)
             ELSE IF packet_info.type = "END"
             THEN leave_receive_loop([c EXCEPT !.streaming_complete = TRUE])
             ELSE c

\* request_media_file: the streaming state is reset before the request is
\* sent and the receive thread started; expected_size is not among the
\* fields it resets, and receive_stream opens the buffer file with 'wb'
request_media_file(c) ==
    [c EXCEPT !.received_bytes        = 0,
              !.packets_received      = 0,
              !.packets_buffer        = EmptyDict,
              !.sequence_expected     = 0,
              !.streaming_complete    = FALSE,
              !.media_player_launched = FALSE,
              !.receiving             = TRUE,
              !.buffer_file           = <<>>]

----------------------------------------------------------------------------
(* VideoBuffer *)

playback_threshold == 102400

playback_window == 50000

VideoBuffer_init ==
    [packets           |-> EmptyDict,
     next_expected_seq |-> 1,
     total_size        |-> 0,
     bytes_received    |-> 0,
     file_handle       |-> FALSE,
     buffer_file       |-> <<>>]

\* open(path, 'wb') truncates the file
initialize_file(b, total_size) ==
    [b EXCEPT !.total_size = total_size, !.file_handle = TRUE, !.buffer_file = <<>>]

\* mutant: an if in place of the while, only the packet just stored is written
write_consecutive_once(b) ==
    IF b.next_expected_seq \in DOMAIN b.packets
    THEN LET packet_data == b.packets[b.next_expected_seq]
         IN  [b EXCEPT
                 !.packets           = DictPop(@, b.next_expected_seq),
                 !.buffer_file       = IF b.file_handle THEN Cat(@, packet_data) ELSE @,
                 !.bytes_received    = @ + BLen(packet_data),
                 !.next_expected_seq = @ + 1]
    ELSE b

\* the while loop of add_packet
RECURSIVE write_consecutive(_)
write_consecutive(b) ==
    IF b.next_expected_seq \in DOMAIN b.packets
    THEN LET packet_data == b.packets[b.next_expected_seq]
         IN  write_consecutive([b EXCEPT
                 !.packets           = DictPop(@, b.next_expected_seq),
                 !.buffer_file       = IF b.file_handle THEN Cat(@, packet_data) ELSE @,
                 !.bytes_received    = @ + BLen(packet_data),
                 !.next_expected_seq = @ + 1])
    ELSE b

\* mutant: a packet ahead of the expected one is not kept
add_packet_in_order(b, seq_num, data) ==
    IF seq_num = b.next_expected_seq
    THEN write_consecutive([b EXCEPT !.packets = DictPut(@, seq_num, data)])
    ELSE b

\* the buffer after add_packet(seq_num, data)
add_packet(b, seq_num, data) ==
    IF seq_num >= b.next_expected_seq
    THEN write_consecutive([b EXCEPT !.packets = DictPut(@, seq_num, data)])
    ELSE b

\* the value add_packet returns, from the buffer it leaves
add_packet_result(b) ==
    b.bytes_received >= playback_threshold
    /\ b.bytes_received < playback_threshold + playback_window

close(b) == [b EXCEPT !.file_handle = FALSE]

----------------------------------------------------------------------------
(* AdvancedUDPVideoClient._receive_stream *)

\* streaming and the locals of _receive_stream; launch_attempts counts the
\* calls of MediaPlayerManager.launch_player, final_stats the calls of
\* _show_final_stats
AdvancedUDPVideoClient_init ==
    [streaming             |-> TRUE,
     file_initialized      |-> FALSE,
     media_player_launched |-> FALSE,
     launch_attempts       |-> 0,
     ended_by              |-> "none",
     final_stats           |-> 0]

\* the 'D' branch: st = [ac, vb]; launch_ok is what launch_player returns
receive_data(st, packet_info, launch_ok) ==
    LET b == add_packet(st.vb, packet_info.seq, packet_info.data)
        should_launch_player == add_packet_result(b)
    IN  IF should_launch_player /\ ~st.ac.media_player_launched
        THEN [ac |-> [st.ac EXCEPT !.media_player_launched = launch_ok,
                                   !.launch_attempts = @ + 1],
              vb |-> b]
        ELSE [ac |-> st.ac, vb |-> b]

\* mutant: the loop is left without the buffer being closed
leave_receive_stream_open(st, branch) ==
    [ac |-> [st.ac EXCEPT !.streaming = FALSE, !.ended_by = branch],
     vb |-> st.vb]

\* the loop of _receive_stream is left: streaming is cleared and the finally
\* clause closes the buffer; ended_by records the branch that left it
leave_receive_stream(st, branch) ==
    [ac |-> [st.ac EXCEPT !.streaming = FALSE, !.ended_by = branch],
     vb |-> close(st.vb)]

\* _show_final_stats prints the statistics of the session
_show_final_stats(st) == [st EXCEPT !.ac.final_stats = @ + 1]

\* mutant: the 'D' branch is taken without looking at file_initialized
_receive_stream_unguarded(st, data, launch_ok) ==
    LET packet_info == parse_packet(data)
    IN  IF packet_info.type = "None" THEN st
        ELSE IF packet_info.type = "INFO"
        THEN LET file_info == json_loads(packet_info.data)
             IN  IF file_info.error \/ file_info.size = None
                 THEN leave_receive_stream(st, "exception")
                 ELSE [ac |-> [st.ac EXCEPT !.file_initialized = TRUE],
                       vb |-> initialize_file(st.vb, file_info.size)]
        ELSE IF packet_info.type = "D"
        THEN receive_data(st, packet_info, launch_ok)
        ELSE IF packet_info.type = "E"
        THEN leave_receive_stream(_show_final_stats(st), "E")
        ELSE IF packet_info.type = "ERROR"
        THEN IF json_loads(packet_info.data).error
             THEN leave_receive_stream(st, "exception")
             ELSE leave_receive_stream(st, "ERROR")
        ELSE st

\* one iteration of the loop of _receive_stream for the datagram data
_receive_stream(st, data, launch_ok) ==
    LET packet_info == parse_packet(data)
    IN  IF packet_info.type = "None" THEN st
        ELSE IF packet_info.type = "INFO"
        THEN LET file_info == json_loads(packet_info.data)
             IN  IF file_info.error \/ file_info.size = None
                 THEN leave_receive_stream(st, "exception")
                 ELSE [ac |-> [st.ac EXCEPT !.file_initialized = TRUE],
                       vb |-> initialize_file(st.vb, file_info.size)]
        ELSE IF packet_info.type = "D" /\ st.ac.file_initialized
        THEN receive_data(st, packet_info, launch_ok)
        ELSE IF packet_info.type = "E"
        THEN leave_receive_stream(_show_final_stats(st), "E")
        ELSE IF packet_info.type = "ERROR"
        THEN IF json_loads(packet_info.data).error
             THEN leave_receive_stream(st, "exception")
             ELSE leave_receive_stream(st, "ERROR")
        ELSE st

\* stream_video: the request is sent, streaming is set and a new thread runs
\* _receive_stream with fresh locals; self.stats is replaced, self.buffer is
\* the VideoBuffer the client was constructed with
stream_video(st) ==
    [ac |-> [st.ac EXCEPT !.streaming             = TRUE,
                          !.file_initialized      = FALSE,
                          !.media_player_launched = FALSE,
                          !.ended_by              = "none"],
     vb |-> st.vb]

----------------------------------------------------------------------------
(* NetworkMonitor.  A bandwidth in KB/s is the fraction num/den. *)

Rat(n, d) == [num |-> n, den |-> d]

RLt(a, b) == a.num * b.den < b.num * a.den

\* min(a, b) and max(a, b) of Python: the first argument unless the second is
\* strictly smaller (larger)
RMin(a, b) == IF RLt(b, a) THEN b ELSE a

RMax(a, b) == IF RLt(a, b) THEN b ELSE a

monitor_window == 100

recent_samples == 20

min_samples == 10

default_bandwidth == 100

min_bandwidth == 50

max_bandwidth == 1000

low_bandwidth == 100

high_bandwidth == 300

NetworkMonitor_init == [packet_times |-> <<>>, total_packets |-> 0]

\* record_packet(packet_size, send_time) when time.time() is t
record_packet(m, packet_size, send_time, t) ==
    LET appended == Append(m.packet_times, <<t, packet_size, send_time>>)
    IN  [packet_times  |-> IF Len(appended) > monitor_window
                           THEN SubSeq(appended, Len(appended) - monitor_window + 1,
                                       Len(appended))
                           ELSE appended,
         total_packets |-> m.total_packets + 1]

\* packet_times[-20:]
RecentSamples(m) ==
    LET n == Len(m.packet_times)
    IN  IF n > recent_samples THEN SubSeq(m.packet_times, n - recent_samples + 1, n)
        ELSE m.packet_times

RECURSIVE SumSizes(_)
SumSizes(samples) ==
    IF samples = <<>> THEN 0 ELSE Head(samples)[2] + SumSizes(Tail(samples))

\* mutant: the estimate is returned without the clamp
estimate_bandwidth_unclamped(m) ==
    IF Len(m.packet_times) < min_samples THEN Rat(default_bandwidth, 1)
    ELSE LET recent == RecentSamples(m)
             total_bytes == SumSizes(recent)
             time_span == recent[Len(recent)][1] - recent[1][1]
         IN  IF time_span > 0
             THEN Rat(total_bytes * 125, 128 * time_span)
             ELSE Rat(default_bandwidth, 1)

\* (total_bytes / 1024) / time_span with time_span in seconds is
\* total_bytes * 1000 / (1024 * ms) = total_bytes * 125 / (128 * ms)
estimate_bandwidth(m) ==
    IF Len(m.packet_times) < min_samples THEN Rat(default_bandwidth, 1)
    ELSE LET recent == RecentSamples(m)
             total_bytes == SumSizes(recent)
             time_span == recent[Len(recent)][1] - recent[1][1]
         IN  IF time_span > 0
             THEN RMax(Rat(min_bandwidth, 1),
                       RMin(Rat(max_bandwidth, 1),
                            Rat(total_bytes * 125, 128 * time_span)))
             ELSE Rat(default_bandwidth, 1)

\* mutant: an estimate of exactly 100 KB/s counts as low bandwidth
get_optimal_chunk_size_inclusive(m, base_range) ==
    LET bandwidth == estimate_bandwidth(m)
        min_size == base_range[1]
        max_size == base_range[2]
    IN  IF ~RLt(Rat(low_bandwidth, 1), bandwidth)
        THEN <<min_size, min_size + (max_size - min_size) \div 3>>
        ELSE IF RLt(Rat(high_bandwidth, 1), bandwidth)
        THEN <<min_size + (max_size - min_size) \div 2, max_size>>
        ELSE base_range

\* mutant: the high-bandwidth range is shifted up by half the width of the base
get_optimal_chunk_size_shifted(m, base_range) ==
    LET bandwidth == estimate_bandwidth(m)
        min_size == base_range[1]
        max_size == base_range[2]
    IN  IF RLt(bandwidth, Rat(low_bandwidth, 1))
        THEN <<min_size, min_size + (max_size - min_size) \div 3>>
        ELSE IF RLt(Rat(high_bandwidth, 1), bandwidth)
        THEN <<min_size + (max_size - min_size) \div 2,
               max_size + (max_size - min_size) \div 2>>
        ELSE base_range

get_optimal_chunk_size(m, base_range) ==
    LET bandwidth == estimate_bandwidth(m)
        min_size == base_range[1]
        max_size == base_range[2]
    IN  IF RLt(bandwidth, Rat(low_bandwidth, 1))
        THEN <<min_size, min_size + (max_size - min_size) \div 3>>
        ELSE IF RLt(Rat(high_bandwidth, 1), bandwidth)
        THEN <<min_size + (max_size - min_size) \div 2, max_size>>
        ELSE base_range

\* the client addresses the server has seen
Addrs == {"c1"}

\* a monitor after n <= 100 record_packet calls, tick milliseconds apart,
\* for packets of packet_size bytes, the last of them at time t
RecordedMonitor(n, tick, packet_size, t) ==
    [packet_times  |-> [i \in 1..n |-> <<t - (n - i) * tick, packet_size,
                                         t - (n - i) * tick>>],
     total_packets |-> n]

----------------------------------------------------------------------------
(* VideoMetadata and the quality presets of AdvancedUDPVideoServer *)

\* size_mb = size / (1024 * 1024) compared with 50 and 200
_estimate_quality(size, extension) ==
    IF extension \in {".mp4", ".avi", ".mkv", ".mov"}
    THEN IF size < 50 * 1024 * 1024 THEN "480p"
         ELSE IF size < 200 * 1024 * 1024 THEN "720p"
         ELSE "1080p"
    ELSE IF extension \in {".mp3", ".wav", ".flac"} THEN "audio"
    ELSE "unknown"

_calculate_optimal_chunk_size(estimated_quality) ==
    IF estimated_quality = "1080p" THEN <<1800, 2000>>
    ELSE IF estimated_quality = "720p" THEN <<1400, 1800>>
    ELSE IF estimated_quality = "480p" THEN <<1000, 1400>>
    ELSE <<1000, 2000>>

VideoMetadata(size, extension) ==
    [size |-> size,
     extension |-> extension,
     estimated_quality |-> _estimate_quality(size, extension),
     optimal_chunk_size |-> _calculate_optimal_chunk_size(_estimate_quality(size, extension))]

\* self.quality_presets.get(quality_preset, default); "auto" is handled by
\* the caller
quality_presets_get(quality_preset, default) ==
    IF quality_preset = "low" THEN <<1000, 1300>>
    ELSE IF quality_preset = "medium" THEN <<1300, 1700>>
    ELSE IF quality_preset = "high" THEN <<1700, 2000>>
    ELSE default

\* the chunk range start_video_stream hands to _stream_file_adaptive
chunk_range(quality_preset, metadata) ==
    IF quality_preset = "auto" THEN metadata.optimal_chunk_size
    ELSE quality_presets_get(quality_preset, metadata.optimal_chunk_size)

\* the range UDPStreamingServer.stream_file draws from
basic_chunk_range == <<1000, 2000>>

\* the send threads of the server
StreamIds == {1}

IdleStream ==
    [state |-> "idle", server |-> "none", addr |-> "none", seq_num |-> 0,
     bytes_sent |-> 0, total_size |-> 0, range |-> <<0, 0>>, packet_count |-> 0]

SendersIdle ==
    /\ now = 0
    /\ monitors = [a \in Addrs |-> NetworkMonitor_init]
    /\ streams = [s \in StreamIds |-> IdleStream]
    /\ sent = [a \in Addrs |-> <<>>]
    /\ rpos = 0
    /\ held = {}
    /\ steps = 0

----------------------------------------------------------------------------
(* The DATA packets of one stream, as the send loops cut them from the file *)

NumPackets == 4

MaxArrivals == 5

\* the sequence number of the first DATA packet: stream_file starts at 0,
\* _stream_file_adaptive at 1
StartSeq(r) == IF r = "basic" THEN 0 ELSE 1

\* the size drawn for the i-th chunk (i from 0), within [1000, 2000]
ChunkLenAt(i) == 1000 + 500 * (i % 3)

\* bytes_sent before the i-th chunk
RECURSIVE OffsetAt(_)
OffsetAt(i) == IF i <= 0 THEN 0 ELSE OffsetAt(i - 1) + ChunkLenAt(i - 1)

\* chunk_data of the i-th DATA packet
StreamPayload(i) == FileSlice(OffsetAt(i), ChunkLenAt(i))

\* the file size of a stream of n chunks
StreamSize(n) == OffsetAt(n)

----------------------------------------------------------------------------
(* The receiver under test *)

Expected == IF rx = "basic" THEN uc.sequence_expected ELSE vb.next_expected_seq

Store == IF rx = "basic" THEN uc.packets_buffer ELSE vb.packets

Output == IF rx = "basic" THEN uc.buffer_file ELSE vb.buffer_file

BytesReceived == IF rx = "basic" THEN uc.received_bytes ELSE vb.bytes_received

CodecIdle == args = [kind |-> "none"] /\ wire = <<>> /\ parsed = [type |-> "None"]

----------------------------------------------------------------------------
(* SpecReasm: the DATA packets of one stream reach the reassembly step in   *)
(* any order, any number of times, or never                                *)

InitReasm ==
    /\ threads = <<>>
    /\ RTPIdle
    /\ RTSPIdle
    /\ pc = "reasm"
    /\ rx \in {"basic", "adv"}
    /\ CodecIdle
    /\ uc = [UDPStreamingClient_init EXCEPT !.expected_size = StreamSize(NumPackets)]
    /\ vb = initialize_file(VideoBuffer_init, StreamSize(NumPackets))
    /\ ac = [AdvancedUDPVideoClient_init EXCEPT !.file_initialized = TRUE]
    /\ arrivals = <<>>
    /\ SendersIdle

\* receive_stream hands a DATA packet to handle_data_packet
BasicDeliver ==
    /\ pc = "reasm" /\ rx = "basic"
    /\ Len(arrivals) < MaxArrivals
    /\ \E i \in 0..(NumPackets - 1) :
         LET seq_num == StartSeq("basic") + i
         IN  /\ uc' = handle_data_packet(uc, [type |-> "DATA", sequence |-> seq_num,
                                              data |-> StreamPayload(i)])
             /\ arrivals' = Append(arrivals, seq_num)
    /\ UNCHANGED <<held, rr, session, threads, pc, rx, codecVars, vb, ac, sendVars>>

\* _receive_stream takes its 'D' branch
AdvDeliver ==
    /\ pc = "reasm" /\ rx = "adv"
    /\ ac.streaming /\ ac.file_initialized
    /\ Len(arrivals) < MaxArrivals
    /\ \E i \in 0..(NumPackets - 1), launch_ok \in BOOLEAN :
         LET seq_num == StartSeq("adv") + i
             st == receive_data([ac |-> ac, vb |-> vb],
                                [type |-> "D", seq |-> seq_num, data |-> StreamPayload(i)],
                                launch_ok)
         IN  /\ ac' = st.ac
             /\ vb' = st.vb
             /\ arrivals' = Append(arrivals, seq_num)
    /\ UNCHANGED <<held, rr, session, threads, pc, rx, codecVars, uc, sendVars>>

NextReasm == BasicDeliver \/ AdvDeliver

SpecReasm == InitReasm /\ [][NextReasm]_vars

----------------------------------------------------------------------------
(* Claims on reassembly *)

LastArrival == arrivals[Len(arrivals)]

Arrived == Len(arrivals') = Len(arrivals) + 1

\* the first k payloads of the stream, concatenated: the first OffsetAt(k)
\* bytes of the file
StreamPrefix(k) == FileSlice(0, OffsetAt(k))

\* C1: at every step the output file is exactly the payloads of the sequence
\* numbers from the stream's start up to expected_sequence - 1, in order, with
\* no gap, whatever the order, the losses and the duplicates of the arrivals.
C1_ContiguousPrefix == Output = StreamPrefix(Expected - StartSeq(rx))

\* C1 witness: the packet after the expected one is buffered (it overtook a
\* packet that is late or lost) while earlier payloads are already written.
C1_Witness ==
    /\ Expected > StartSeq(rx)
    /\ (Expected + 1) \in DOMAIN Store
    /\ Output # <<>>
    /\ Len(arrivals) >= 3

\* the end of the run of consecutive keys of d that starts at e
RunEnd(d, e) ==
    CHOOSE r \in e..(e + Cardinality(DOMAIN d)) :
        r \notin DOMAIN d /\ \A k \in e..(r - 1) : k \in DOMAIN d

\* the payloads d holds for e, e+1, .., r-1, in ascending order
RECURSIVE RunBytes(_, _, _)
RunBytes(d, e, r) == IF e >= r THEN <<>> ELSE Cat(d[e], RunBytes(d, e + 1, r))

C2_Step ==
    (Arrived /\ arrivals'[Len(arrivals')] = Expected) =>
        LET r == RunEnd(Store, Expected + 1)
            written == Cat(StreamPayload(Expected - StartSeq(rx)),
                           RunBytes(Store, Expected + 1, r))
        IN  /\ Output' = Cat(Output, written)
            /\ Expected' = r
            /\ Expected' \notin DOMAIN Store'

\* the arrivals 0,2,1,3 (payloads A,C,B,D) of the stream that starts at 0, and
\* the same arrivals counted from the start of the stream that starts at 1
C2_Example ==
    LET s == StartSeq(rx)
    IN  /\ arrivals = <<s, s + 2>> => Output = StreamPrefix(1)
        /\ arrivals = <<s, s + 2, s + 1>> => Output = StreamPrefix(3)
        /\ arrivals = <<s, s + 2, s + 1, s + 3>> => Output = StreamPrefix(4)

\* C2: the arrival of the expected packet writes it and, in the same step,
\* every buffered packet that directly follows it, in ascending order, so that
\* afterwards expected_sequence is not a key of the store; arrivals 0,2,1,3
\* write B then C on the arrival of 1 and end with ABCD.
C2_DrainsRun == [][C2_Step]_vars /\ [](C2_Example)

\* C2 witness: the expected packet has just arrived with its successor
\* buffered, and both are written.
C2_Witness ==
    /\ arrivals = <<StartSeq(rx), StartSeq(rx) + 2, StartSeq(rx) + 1>>
    /\ Expected = StartSeq(rx) + 3

\* C3: a DATA packet whose sequence number is already written (below
\* expected_sequence) changes neither the output file nor expected_sequence
\* and does not increase bytes_received.
C3_WrittenDuplicateIsNoOp ==
    [][(Arrived /\ arrivals'[Len(arrivals')] < Expected) =>
          /\ Output' = Output
          /\ BytesReceived' <= BytesReceived
          /\ Expected' = Expected]_vars

\* C3 witness: the last arrival repeats a sequence number that had been
\* written before it arrived again.
C3_Witness ==
    /\ Len(arrivals) >= 2
    /\ LastArrival < Expected
    /\ \E i \in 1..(Len(arrivals) - 1) : arrivals[i] = LastArrival
    /\ Output = StreamPrefix(Expected - StartSeq(rx))
    /\ Output # <<>>

----------------------------------------------------------------------------
(* SpecCodec: a packet is built from its arguments and decoded again *)

SeqChoices == {0, 1, 255, 256, 65536, 2147483647}

SizeChoices == {0, 1500, 5000, 2147483647}

PayloadChoices == {<<>>, FileSlice(0, 1), FileSlice(3000, 2000), Bytes(<<0, 255>>)}

\* the calls of the builders: UDPStreamingServer.stream_file builds DATA and
\* END packets, AdvancedUDPVideoServer builds 'D', 'E', 'INFO' and 'ERROR'
CodecInputs ==
    [kind : {"data"}, type : {"D"}, seq : SeqChoices, data : PayloadChoices,
     bytes_sent : SizeChoices, total_size : SizeChoices]
    \cup [kind : {"end"}, type : {"E"}, seq : SeqChoices, data : {<<>>},
          bytes_sent : {0}, total_size : {0}]
    \cup [kind : {"adv"}, type : {"D"}, seq : SeqChoices, data : PayloadChoices,
          bytes_sent : SizeChoices, total_size : SizeChoices]
    \cup [kind : {"adv"}, type : {"E"}, seq : SeqChoices, data : {<<>>},
          bytes_sent : SizeChoices, total_size : SizeChoices]
    \cup [kind : {"adv"}, type : {"INFO", "ERROR"}, seq : {0}, data : {JsonBody(5000)},
          bytes_sent : {0}, total_size : {0, 5000}]

ReceiversIdle ==
    /\ uc = UDPStreamingClient_init
    /\ vb = VideoBuffer_init
    /\ ac = AdvancedUDPVideoClient_init
    /\ arrivals = <<>>

InitCodec ==
    /\ threads = <<>>
    /\ RTPIdle
    /\ RTSPIdle
    /\ pc = "args"
    /\ args \in CodecInputs
    /\ rx = (IF args.kind = "adv" THEN "adv" ELSE "basic")
    /\ wire = <<>>
    /\ parsed = [type |-> "None"]
    /\ ReceiversIdle
    /\ SendersIdle

BuildData ==
    /\ pc = "args" /\ args.kind = "data"
    /\ wire' = create_data_packet(args.seq, args.data, args.bytes_sent, args.total_size)
    /\ pc' = "built"
    /\ UNCHANGED <<held, rr, session, threads, rx, args, parsed, recvVars, sendVars>>

BuildEnd ==
    /\ pc = "args" /\ args.kind = "end"
    /\ wire' = create_end_packet(args.seq)
    /\ pc' = "built"
    /\ UNCHANGED <<held, rr, session, threads, rx, args, parsed, recvVars, sendVars>>

BuildPacket ==
    /\ pc = "args" /\ args.kind = "adv"
    /\ wire' = create_packet(args.type, args.seq, args.data, args.total_size, args.bytes_sent)
    /\ pc' = "built"
    /\ UNCHANGED <<held, rr, session, threads, rx, args, parsed, recvVars, sendVars>>

ParseDataPacket ==
    /\ pc = "built" /\ rx = "basic"
    /\ parsed' = parse_data_packet(wire)
    /\ pc' = "parsed"
    /\ UNCHANGED <<held, rr, session, threads, rx, args, wire, recvVars, sendVars>>

ParsePacket ==
    /\ pc = "built" /\ rx = "adv"
    /\ parsed' = parse_packet(wire)
    /\ pc' = "parsed"
    /\ UNCHANGED <<held, rr, session, threads, rx, args, wire, recvVars, sendVars>>

NextCodec == BuildData \/ BuildEnd \/ BuildPacket \/ ParseDataPacket \/ ParsePacket

SpecCodec == InitCodec /\ [][NextCodec]_vars

\* C4: parse_data_packet returns the type and sequence number of every packet
\* create_data_packet or create_end_packet built and, for DATA, its data_size,
\* bytes_sent, total_size and payload.
C4_RoundTrip ==
    (pc = "parsed" /\ rx = "basic") =>
        IF args.kind = "data"
        THEN /\ parsed.type = "DATA"
             /\ parsed.sequence = args.seq
             /\ parsed.data_size = BLen(args.data)
             /\ parsed.bytes_sent = args.bytes_sent
             /\ parsed.total_size = args.total_size
             /\ parsed.data = args.data
        ELSE /\ parsed.type = "END"
             /\ parsed.sequence = args.seq

\* C5: parse_packet returns the type, seq, data_size, bytes_sent, total_size
\* and data that create_packet was given, for the types 'D', 'E', 'INFO' and
\* 'ERROR'.
C5_RoundTrip ==
    (pc = "parsed" /\ rx = "adv") =>
        /\ parsed.type = args.type
        /\ parsed.seq = args.seq
        /\ parsed.data_size = BLen(args.data)
        /\ parsed.bytes_sent = args.bytes_sent
        /\ parsed.total_size = args.total_size
        /\ parsed.data = args.data

----------------------------------------------------------------------------
(* SpecMonitor: record_packet calls with any sizes and timestamps *)

MaxRecords == 4

\* milliseconds between two record_packet calls
TickChoices == {0, 1, 40, 500}

\* len(packet) of the DATA packets: the header and 1000 or 2000 bytes
PacketSizeChoices == {HeaderSize + 1000, HeaderSize + 2000}

\* how many packets the monitor recorded before, and how far apart
PriorChoices == {<<0, 0>>, <<7, 0>>, <<9, 5>>, <<19, 1>>, <<98, 1>>, <<98, 40>>}

InitMonitor ==
    /\ threads = <<>>
    /\ RTPIdle
    /\ RTSPIdle
    /\ pc = "monitor"
    /\ rx = "adv"
    /\ CodecIdle
    /\ ReceiversIdle
    /\ now = 100000
    /\ \E prior \in PriorChoices :
         monitors = [a \in Addrs |->
                        RecordedMonitor(prior[1], prior[2], HeaderSize + 2000, now)]
    /\ streams = [s \in StreamIds |-> IdleStream]
    /\ sent = [a \in Addrs |-> <<>>]
    /\ rpos = 0
    /\ held = {}
    /\ steps = 0

RecordPacket ==
    /\ pc = "monitor"
    /\ steps < MaxRecords
    /\ \E a \in Addrs, dt \in TickChoices, packet_size \in PacketSizeChoices :
         /\ now' = now + dt
         /\ monitors' = [monitors EXCEPT ![a] = record_packet(@, packet_size, now, now')]
    /\ steps' = steps + 1
    /\ UNCHANGED <<held, rr, session, threads, pc, rx, codecVars, recvVars, streams, sent, rpos>>

NextMonitor == RecordPacket

SpecMonitor == InitMonitor /\ [][NextMonitor]_vars

\* the time span of the last 20 samples, in milliseconds
RecentSpan(m) ==
    LET n == Len(m.packet_times)
        first == IF n > recent_samples THEN n - recent_samples + 1 ELSE 1
    IN  m.packet_times[n][1] - m.packet_times[first][1]

\* C9: estimate_bandwidth returns a value in [50, 1000], and exactly 100 when
\* fewer than 10 samples are recorded or the last 20 samples span no time.
C9_BandwidthBounds ==
    \A a \in Addrs :
        LET m == monitors[a]
            bandwidth == estimate_bandwidth(m)
        IN  /\ bandwidth.den > 0
            /\ 50 * bandwidth.den <= bandwidth.num
            /\ bandwidth.num <= 1000 * bandwidth.den
            /\ (Len(m.packet_times) < 10 \/ RecentSpan(m) = 0)
                  => (bandwidth.num = 100 /\ bandwidth.den = 1)

\* C9 witness: record_packet has run, more than 20 samples are recorded, the
\* last 20 of them span time, and the raw quotient lies above 1000 KB/s, so
\* the clamp acts.
C9_Witness ==
    \E a \in Addrs :
        LET m == monitors[a]
        IN  /\ pc = "monitor"
            /\ steps > 0
            /\ Len(m.packet_times) > 20
            /\ RecentSpan(m) > 0
            /\ SumSizes(RecentSamples(m)) * 125 > 1000 * 128 * RecentSpan(m)
            /\ estimate_bandwidth(m) = Rat(1000, 1)

----------------------------------------------------------------------------
(* SpecSend: the send loops of UDPStreamingServer and AdvancedUDPVideoServer *)

MaxSends == 3

\* time, in milliseconds, a loop iteration takes on top of its sleep
LagChoices == {0, 30}

\* the media files: size and extension
MediaFiles ==
    {[size |-> 0, extension |-> ".mp4"],
     [size |-> 700, extension |-> ".mp4"],
     [size |-> 2700, extension |-> ".mp4"],
     [size |-> 2700, extension |-> ".mp3"],
     [size |-> 60 * 1024 * 1024, extension |-> ".mkv"],
     [size |-> 250 * 1024 * 1024, extension |-> ".mov"],
     [size |-> 2700, extension |-> ".webm"]}

\* request.get('quality', 'auto')
PresetChoices == {"auto", "low", "medium", "high", "ultra"}

\* samples earlier streams to the same address left in network_monitors
SendPriorChoices == {<<0, 0>>, <<19, 1>>, <<98, 40>>}

\* random.randint(lo, hi): the two ends and the middle
ChunkSizeChoices(range) == {range[1], (range[1] + range[2]) \div 2, range[2]}

\* f"INFO:{json.dumps(file_info)}".encode('utf-8')
info_msg(file_size) == Bytes(<<73, 78, 70, 79, 58>>) \o JsonBody(file_size)

\* min(chunk_size, remaining_bytes)
Min(x, y) == IF x < y THEN x ELSE y

\* the delay _stream_file_adaptive sleeps after a send, in milliseconds
adaptive_delay(m) ==
    LET bandwidth == estimate_bandwidth(m)
    IN  IF RLt(bandwidth, Rat(low_bandwidth, 1)) THEN 10
        ELSE IF RLt(Rat(high_bandwidth, 1), bandwidth) THEN 1
        ELSE 5

InitSend ==
    /\ threads = <<>>
    /\ RTPIdle
    /\ RTSPIdle
    /\ pc = "send"
    /\ rx \in {"basic", "adv"}
    /\ CodecIdle
    /\ ReceiversIdle
    /\ now = 100000
    /\ \E prior \in SendPriorChoices :
          /\ rx = "basic" => prior = <<0, 0>>
          /\ monitors = [a \in Addrs |->
                            RecordedMonitor(prior[1], prior[2], HeaderSize + 2000, now)]
    /\ streams = [s \in StreamIds |-> IdleStream]
    /\ sent = [a \in Addrs |-> <<>>]
    /\ rpos = 0
    /\ held = {}
    /\ steps = 0

\* UDPStreamingServer.stream_file up to the loop: the INFO message
\* mutant: the loop is entered without the INFO message
StreamFile_no_info ==
    /\ pc = "send" /\ rx = "basic"
    /\ \E s \in DOMAIN streams, a \in DOMAIN sent, f \in MediaFiles :
          /\ streams[s].state = "idle"
          /\ streams' = [streams EXCEPT ![s] =
                            [state |-> "run", server |-> "basic", addr |-> a,
                             seq_num |-> 0, bytes_sent |-> 0, total_size |-> f.size,
                             range |-> basic_chunk_range, packet_count |-> 0]]
    /\ UNCHANGED <<held, rr, session, threads, pc, rx, codecVars, recvVars, now, monitors, sent, rpos, steps>>

StreamFile ==
    /\ pc = "send" /\ rx = "basic"
    /\ \E s \in DOMAIN streams, a \in DOMAIN sent, f \in MediaFiles :
          /\ streams[s].state = "idle"
          /\ sent' = [sent EXCEPT ![a] = Append(@, info_msg(f.size))]
          /\ streams' = [streams EXCEPT ![s] =
                            [state |-> "run", server |-> "basic", addr |-> a,
                             seq_num |-> 0, bytes_sent |-> 0, total_size |-> f.size,
                             range |-> basic_chunk_range, packet_count |-> 0]]
    /\ UNCHANGED <<held, rr, session, threads, pc, rx, codecVars, recvVars, now, monitors, rpos, steps>>

\* mutant: an iteration sends its packet but does not add to bytes_sent
StreamFileSend_stalled ==
    /\ pc = "send" /\ steps < MaxSends
    /\ \E s \in DOMAIN streams, lag \in LagChoices :
          LET st == streams[s] IN
          /\ st.state = "run" /\ st.server = "basic"
          /\ st.bytes_sent < st.total_size
          /\ \E drawn \in ChunkSizeChoices(basic_chunk_range) :
                LET remaining_bytes == st.total_size - st.bytes_sent
                    chunk_size == IF remaining_bytes < drawn THEN remaining_bytes ELSE drawn
                    chunk_data == FileSlice(st.bytes_sent, chunk_size)
                    packet == create_data_packet(st.seq_num, chunk_data, st.bytes_sent,
                                                 st.total_size)
                IN  /\ sent' = [sent EXCEPT ![st.addr] = Append(@, packet)]
                    /\ streams' = [streams EXCEPT ![s] =
                                      [st EXCEPT !.seq_num = @ + 1,
                                                 !.packet_count = @ + 1]]
          /\ now' = now + 10 + lag
    /\ steps' = steps + 1
    /\ UNCHANGED <<held, rr, session, threads, pc, rx, codecVars, recvVars, monitors, rpos>>

\* one iteration of the loop of stream_file
StreamFileSend ==
    /\ pc = "send" /\ steps < MaxSends
    /\ \E s \in DOMAIN streams, lag \in LagChoices :
          LET st == streams[s] IN
          /\ st.state = "run" /\ st.server = "basic"
          /\ st.bytes_sent < st.total_size
          /\ \E drawn \in ChunkSizeChoices(basic_chunk_range) :
                LET remaining_bytes == st.total_size - st.bytes_sent
                    chunk_size == IF remaining_bytes < drawn THEN remaining_bytes ELSE drawn
                    chunk_data == FileSlice(st.bytes_sent, chunk_size)
                    packet == create_data_packet(st.seq_num, chunk_data, st.bytes_sent,
                                                 st.total_size)
                IN  /\ sent' = [sent EXCEPT ![st.addr] = Append(@, packet)]
                    /\ streams' = [streams EXCEPT ![s] =
                                      [st EXCEPT !.bytes_sent = @ + BLen(chunk_data),
                                                 !.seq_num = @ + 1,
                                                 !.packet_count = @ + 1]]
          /\ now' = now + 10 + lag
    /\ steps' = steps + 1
    /\ UNCHANGED <<held, rr, session, threads, pc, rx, codecVars, recvVars, monitors, rpos>>

\* mutant: the end marker is sent inside the loop, after a DATA packet, and
\* the loop goes on
StreamFileEnd_in_loop ==
    /\ pc = "send"
    /\ \E s \in DOMAIN streams :
          LET st == streams[s] IN
          /\ st.state = "run" /\ st.server = "basic"
          /\ st.packet_count > 0
          /\ sent[st.addr][Len(sent[st.addr])] # create_end_packet(st.seq_num)
          /\ sent' = [sent EXCEPT ![st.addr] = Append(@, create_end_packet(st.seq_num))]
          /\ streams' = [streams EXCEPT ![s].state =
                            IF st.bytes_sent < st.total_size THEN "run" ELSE "done"]
    /\ UNCHANGED <<held, rr, session, threads, pc, rx, codecVars, recvVars, now, monitors, rpos, steps>>

\* the end-of-stream marker of stream_file
StreamFileEnd ==
    /\ pc = "send"
    /\ \E s \in DOMAIN streams :
          LET st == streams[s] IN
          /\ st.state = "run" /\ st.server = "basic"
          /\ ~(st.bytes_sent < st.total_size)
          /\ sent' = [sent EXCEPT ![st.addr] = Append(@, create_end_packet(st.seq_num))]
          /\ streams' = [streams EXCEPT ![s].state = "done"]
    /\ UNCHANGED <<held, rr, session, threads, pc, rx, codecVars, recvVars, now, monitors, rpos, steps>>

\* mutant: the adaptive stream numbers its packets from 0
StartVideoStream_from_zero ==
    /\ pc = "send" /\ rx = "adv"
    /\ \E s \in DOMAIN streams, a \in DOMAIN sent, f \in MediaFiles, quality_preset \in PresetChoices :
          LET metadata == VideoMetadata(f.size, f.extension)
              info_packet == create_packet("INFO", 0, JsonBody(metadata.size),
                                           metadata.size, 0)
          IN  /\ streams[s].state = "idle"
              /\ sent' = [sent EXCEPT ![a] = Append(@, info_packet)]
              /\ streams' = [streams EXCEPT ![s] =
                                [state |-> "run", server |-> "adv", addr |-> a,
                                 seq_num |-> 0, bytes_sent |-> 0,
                                 total_size |-> metadata.size,
                                 range |-> chunk_range(quality_preset, metadata),
                                 packet_count |-> 0]]
    /\ UNCHANGED <<held, rr, session, threads, pc, rx, codecVars, recvVars, now, monitors, rpos, steps>>

\* AdvancedUDPVideoServer.start_video_stream: the INFO packet and the thread
StartVideoStream ==
    /\ pc = "send" /\ rx = "adv"
    /\ \E s \in DOMAIN streams, a \in DOMAIN sent, f \in MediaFiles, quality_preset \in PresetChoices :
          LET metadata == VideoMetadata(f.size, f.extension)
              info_packet == create_packet("INFO", 0, JsonBody(metadata.size),
                                           metadata.size, 0)
          IN  /\ streams[s].state = "idle"
              /\ sent' = [sent EXCEPT ![a] = Append(@, info_packet)]
              /\ streams' = [streams EXCEPT ![s] =
                                [state |-> "run", server |-> "adv", addr |-> a,
                                 seq_num |-> 1, bytes_sent |-> 0,
                                 total_size |-> metadata.size,
                                 range |-> chunk_range(quality_preset, metadata),
                                 packet_count |-> 0]]
    /\ UNCHANGED <<held, rr, session, threads, pc, rx, codecVars, recvVars, now, monitors, rpos, steps>>

\* mutant: every iteration reads its chunk from the start of the file
StreamFileAdaptiveSend_reread ==
    /\ pc = "send" /\ steps < MaxSends
    /\ \E s \in DOMAIN streams, lag \in LagChoices :
          LET st == streams[s]
              monitor == monitors[st.addr]
          IN
          /\ st.state = "run" /\ st.server = "adv"
          /\ st.bytes_sent < st.total_size
          /\ \E chunk_size \in ChunkSizeChoices(get_optimal_chunk_size(monitor, st.range)) :
                LET remaining_bytes == st.total_size - st.bytes_sent
                    actual_chunk_size == Min(chunk_size, remaining_bytes)
                    chunk_data == FileSlice(0, actual_chunk_size)
                    packet == create_packet("D", st.seq_num, chunk_data, st.total_size,
                                            st.bytes_sent)
                    recorded == record_packet(monitor, BLen(packet), now, now)
                IN  /\ sent' = [sent EXCEPT ![st.addr] = Append(@, packet)]
                    /\ monitors' = [monitors EXCEPT ![st.addr] = recorded]
                    /\ streams' = [streams EXCEPT ![s] =
                                      [st EXCEPT !.bytes_sent = @ + BLen(chunk_data),
                                                 !.seq_num = @ + 1,
                                                 !.packet_count = @ + 1]]
                    /\ now' = now + adaptive_delay(recorded) + lag
    /\ steps' = steps + 1
    /\ UNCHANGED <<held, rr, session, threads, pc, rx, codecVars, recvVars, rpos>>

\* one iteration of the loop of _stream_file_adaptive
StreamFileAdaptiveSend ==
    /\ pc = "send" /\ steps < MaxSends
    /\ \E s \in DOMAIN streams, lag \in LagChoices :
          LET st == streams[s]
              monitor == monitors[st.addr]
          IN
          /\ st.state = "run" /\ st.server = "adv"
          /\ st.bytes_sent < st.total_size
          /\ \E chunk_size \in ChunkSizeChoices(get_optimal_chunk_size(monitor, st.range)) :
                LET remaining_bytes == st.total_size - st.bytes_sent
                    actual_chunk_size == Min(chunk_size, remaining_bytes)
                    chunk_data == FileSlice(st.bytes_sent, actual_chunk_size)
                    packet == create_packet("D", st.seq_num, chunk_data, st.total_size,
                                            st.bytes_sent)
                    recorded == record_packet(monitor, BLen(packet), now, now)
                IN  /\ sent' = [sent EXCEPT ![st.addr] = Append(@, packet)]
                    /\ monitors' = [monitors EXCEPT ![st.addr] = recorded]
                    /\ streams' = [streams EXCEPT ![s] =
                                      [st EXCEPT !.bytes_sent = @ + BLen(chunk_data),
                                                 !.seq_num = @ + 1,
                                                 !.packet_count = @ + 1]]
                    /\ now' = now + adaptive_delay(recorded) + lag
    /\ steps' = steps + 1
    /\ UNCHANGED <<held, rr, session, threads, pc, rx, codecVars, recvVars, rpos>>

\* the end-of-stream marker of _stream_file_adaptive
StreamFileAdaptiveEnd ==
    /\ pc = "send"
    /\ \E s \in DOMAIN streams :
          LET st == streams[s] IN
          /\ st.state = "run" /\ st.server = "adv"
          /\ ~(st.bytes_sent < st.total_size)
          /\ sent' = [sent EXCEPT ![st.addr] =
                         Append(@, create_packet("E", st.seq_num, <<>>, st.total_size,
                                                 st.bytes_sent))]
          /\ streams' = [streams EXCEPT ![s].state = "done"]
    /\ UNCHANGED <<held, rr, session, threads, pc, rx, codecVars, recvVars, now, monitors, rpos, steps>>

NextSend ==
    \/ StreamFile
    \/ StreamFileSend
    \/ StreamFileEnd
    \/ StartVideoStream
    \/ StreamFileAdaptiveSend
    \/ StreamFileAdaptiveEnd

SpecSend == InitSend /\ [][NextSend]_vars

\* the datagrams sent that carry the DATA type byte in a full header
IsDataPacket(d) == BLen(d) >= HeaderSize /\ d[1].k = "b" /\ d[1].v = Ord("D")

IsEndPacket(d) == BLen(d) >= HeaderSize /\ d[1].k = "b" /\ d[1].v = Ord("E")

\* the header fields and the payload length of a DATA packet sent
SentHeader(d) == UnpackBIIQQ(BTake(d, HeaderSize))

PayloadLen(d) == BLen(BDrop(d, HeaderSize))

\* C8: every DATA packet sent carries between 1000 and 2000 payload bytes,
\* except the final one of its stream, which carries exactly the bytes that
\* remain (total_size - bytes_sent).
C8_ChunkSizes ==
    \A a \in Addrs : \A i \in 1..Len(sent[a]) :
        LET d == sent[a][i]
            remaining == SentHeader(d).ts - SentHeader(d).bs
        IN  IsDataPacket(d) =>
               /\ PayloadLen(d) = SentHeader(d).l
               /\ PayloadLen(d) >= 1
               /\ PayloadLen(d) <= remaining
               /\ PayloadLen(d) < remaining => (1000 <= PayloadLen(d) /\ PayloadLen(d) <= 2000)

\* C8 witness: an adaptive stream under a high bandwidth estimate has sent a
\* DATA packet drawn from the narrowed range, then a final DATA packet of
\* fewer than 1000 bytes, then END.
C8_Witness ==
    \E a \in Addrs :
        /\ rx = "adv"
        /\ \E i \in 1..Len(sent[a]) :
              /\ IsDataPacket(sent[a][i])
              /\ PayloadLen(sent[a][i]) = 1850
              /\ PayloadLen(sent[a][i]) < SentHeader(sent[a][i]).ts - SentHeader(sent[a][i]).bs
        /\ \E i \in 1..Len(sent[a]) :
              /\ IsDataPacket(sent[a][i])
              /\ PayloadLen(sent[a][i]) < 1000
              /\ PayloadLen(sent[a][i]) = SentHeader(sent[a][i]).ts - SentHeader(sent[a][i]).bs
        /\ Len(sent[a]) > 0 /\ IsEndPacket(sent[a][Len(sent[a])])

----------------------------------------------------------------------------
(* SpecE2E: AdvancedUDPVideoServer streams to AdvancedUDPVideoClient, whose
   receive loop takes every datagram in the order sent *)

E2EPriorChoices == {<<0, 0>>, <<19, 1>>}

\* stream_video has sent the request and started _receive_stream
InitE2E ==
    /\ threads = <<>>
    /\ RTPIdle
    /\ RTSPIdle
    /\ pc = "send"
    /\ rx = "adv"
    /\ CodecIdle
    /\ ReceiversIdle
    /\ now = 100000
    /\ \E prior \in E2EPriorChoices :
          monitors = [a \in Addrs |->
                         RecordedMonitor(prior[1], prior[2], HeaderSize + 2000, now)]
    /\ streams = [s \in StreamIds |-> IdleStream]
    /\ sent = [a \in Addrs |-> <<>>]
    /\ rpos = 0
    /\ held = {}
    /\ steps = 0

\* recvfrom returns the next datagram sent; one iteration of the loop
ReceiveStream ==
    /\ pc = "send" /\ rx = "adv"
    /\ ac.streaming
    /\ \E a \in Addrs, launch_ok \in BOOLEAN :
          /\ rpos < Len(sent[a])
          /\ LET st == _receive_stream([ac |-> ac, vb |-> vb], sent[a][rpos + 1], launch_ok)
             IN  ac' = st.ac /\ vb' = st.vb
    /\ rpos' = rpos + 1
    /\ UNCHANGED <<held, rr, session, threads, pc, rx, codecVars, uc, arrivals, now, monitors, streams, sent, steps>>

NextE2E ==
    \/ StartVideoStream
    \/ StreamFileAdaptiveSend
    \/ StreamFileAdaptiveEnd
    \/ ReceiveStream

SpecE2E == InitE2E /\ [][NextE2E]_vars

\* the receive loop has processed the END packet of the stream, having
\* taken every datagram the server sent
EndProcessed ==
    /\ \A s \in StreamIds : streams[s].state = "done"
    /\ \A a \in Addrs : rpos = Len(sent[a])
    /\ ~ac.streaming
    /\ ac.ended_by = "E"

\* C6: when the END packet is processed after every packet of the stream was
\* received in the order sent, bytes_received equals the file's total size
\* and the output file equals the source file.
C6_EndToEnd ==
    EndProcessed =>
        \A s \in StreamIds :
            /\ vb.bytes_received = streams[s].total_size
            /\ vb.buffer_file = FileSlice(0, streams[s].total_size)

----------------------------------------------------------------------------
(* SpecPlayback: a stream long enough to pass the playback threshold reaches
   the receiver through a network that may hold one datagram back *)

PlaybackPackets == 80

MaxFailedLaunches == 1

\* chunk_data of the i-th DATA packet (i from 0): every draw is the top of
\* the range
PlaybackPayload(i) == FileSlice(i * basic_chunk_range[2], basic_chunk_range[2])

PlaybackSize == PlaybackPackets * basic_chunk_range[2]

\* INFO was received: the buffer file is open and the size is known
InitPlayback ==
    /\ threads = <<>>
    /\ RTPIdle
    /\ RTSPIdle
    /\ pc = "playback"
    /\ rx \in {"basic", "adv"}
    /\ CodecIdle
    /\ uc = [UDPStreamingClient_init EXCEPT !.expected_size = PlaybackSize]
    /\ vb = initialize_file(VideoBuffer_init, PlaybackSize)
    /\ ac = [AdvancedUDPVideoClient_init EXCEPT !.file_initialized = TRUE]
    /\ arrivals = <<>>
    /\ SendersIdle

\* the receive loop of the client under test takes the i-th DATA packet
DataReceived(i) ==
    IF rx = "basic"
    THEN /\ uc' = handle_data_packet(uc, [type |-> "DATA", sequence |-> StartSeq(rx) + i,
                                          data |-> PlaybackPayload(i)])
         /\ UNCHANGED <<vb, ac>>
    ELSE /\ \E launch_ok \in BOOLEAN :
               /\ ~launch_ok => ac.launch_attempts < MaxFailedLaunches
               /\ LET st == receive_data([ac |-> ac, vb |-> vb],
                                         [type |-> "D", seq |-> StartSeq(rx) + i,
                                          data |-> PlaybackPayload(i)],
                                         launch_ok)
                  IN  ac' = st.ac /\ vb' = st.vb
         /\ UNCHANGED uc

\* the next DATA packet of the stream arrives as it was sent
PlaybackDeliver ==
    /\ pc = "playback" /\ steps < PlaybackPackets
    /\ DataReceived(steps)
    /\ steps' = steps + 1
    /\ UNCHANGED <<pc, rx, codecVars, arrivals, now, monitors, streams, sent, rpos, held, rr, session, threads>>

\* the network holds the next DATA packet back
PlaybackHold ==
    /\ pc = "playback" /\ steps < PlaybackPackets
    /\ held = {}
    /\ held' = {steps}
    /\ steps' = steps + 1
    /\ UNCHANGED <<pc, rx, codecVars, recvVars, now, monitors, streams, sent, rpos, rr, session, threads>>

\* the packet held back arrives, after those sent later
PlaybackRelease ==
    /\ pc = "playback"
    /\ \E i \in held :
          /\ DataReceived(i)
          /\ held' = held \ {i}
    /\ UNCHANGED <<pc, rx, codecVars, arrivals, sendVars, rr, session, threads>>

NextPlayback == PlaybackDeliver \/ PlaybackHold \/ PlaybackRelease

SpecPlayback == InitPlayback /\ [][NextPlayback]_vars

\* the threshold of the receiver under test, and the launches it has made
Threshold == IF rx = "basic" THEN playback_threshold_basic ELSE playback_threshold

Launches == IF rx = "basic" THEN uc.launches ELSE ac.launch_attempts

\* C7: once bytes_received has reached the playback threshold, the media
\* player launch has been triggered exactly once: not zero times, not twice.
C7_LaunchedOnce == BytesReceived >= Threshold => Launches = 1

----------------------------------------------------------------------------
(* SpecLoop: the receive loops take raw datagrams, short ones among them,
   in the middle of a session *)

MaxLoopArrivals == 2

\* n bytes that are no packet of the protocol
Garbage(n) == <<[k |-> "x", v |-> 0, n |-> n]>>

\* what recvfrom may return: datagrams shorter than the header (empty,
\* garbage, truncated packets, short text messages) and whole packets
LoopDatagrams ==
    {<<>>,
     Garbage(10),
     Garbage(24),
     BTake(create_data_packet(1, StreamPayload(1), OffsetAt(1), StreamSize(NumPackets)), 20),
     BTake(create_data_packet(1, StreamPayload(1), OffsetAt(1), StreamSize(NumPackets)), 21),
     BTake(create_packet("D", 2, StreamPayload(1), StreamSize(NumPackets), OffsetAt(1)), 24),
     BTake(create_end_packet(NumPackets), 24),
     Bytes(<<69, 82, 82, 79, 82, 58>>) \o Garbage(4),
     Bytes(<<73, 78, 70, 79, 58>>) \o Garbage(10),
     Bytes(<<73, 78, 70, 79, 58>>) \o JsonSizeOnly(5),
     info_msg(StreamSize(NumPackets)),
     create_data_packet(0, StreamPayload(0), OffsetAt(0), StreamSize(NumPackets)),
     create_packet("D", 1, StreamPayload(0), StreamSize(NumPackets), OffsetAt(0)),
     create_packet("D", 3, StreamPayload(2), StreamSize(NumPackets), OffsetAt(2)),
     PackBIIQQ(Ord("X"), 1, 0, 0, 0),
     create_end_packet(NumPackets),
     create_packet("E", NumPackets + 1, <<>>, StreamSize(NumPackets),
                   StreamSize(NumPackets))}

\* the session of the client under test is running
Running ==
    IF rx = "basic" THEN uc.receiving /\ ~uc.streaming_complete ELSE ac.streaming

\* INFO was received: the buffer file is open and the size is known
InitLoop ==
    /\ threads = <<>>
    /\ RTPIdle
    /\ RTSPIdle
    /\ pc = "loop"
    /\ rx \in {"basic", "adv"}
    /\ CodecIdle
    /\ uc = [UDPStreamingClient_init EXCEPT !.expected_size = StreamSize(NumPackets)]
    /\ vb = initialize_file(VideoBuffer_init, StreamSize(NumPackets))
    /\ ac = [AdvancedUDPVideoClient_init EXCEPT !.file_initialized = TRUE]
    /\ arrivals = <<>>
    /\ SendersIdle

\* a DATA packet of the stream is handed to handle_data_packet / add_packet
LoopDeliver ==
    /\ Running
    /\ Len(arrivals) < MaxLoopArrivals
    /\ \E i \in 0..(NumPackets - 1) :
          /\ IF rx = "basic"
             THEN /\ uc' = handle_data_packet(uc, [type |-> "DATA",
                                                   sequence |-> StartSeq(rx) + i,
                                                   data |-> StreamPayload(i)])
                  /\ UNCHANGED <<vb, ac>>
             ELSE /\ LET st == receive_data([ac |-> ac, vb |-> vb],
                                            [type |-> "D", seq |-> StartSeq(rx) + i,
                                             data |-> StreamPayload(i)],
                                            TRUE)
                     IN  ac' = st.ac /\ vb' = st.vb
                  /\ UNCHANGED uc
          /\ arrivals' = Append(arrivals, StartSeq(rx) + i)
    /\ pc' = "delivered"
    /\ UNCHANGED <<rx, codecVars, sendVars, held, rr, session, threads>>

\* UDPStreamingClient.receive_stream: recvfrom returns data, one iteration
ReceiveDatagram ==
    /\ rx = "basic" /\ Running
    /\ \E data \in LoopDatagrams :
          /\ wire' = data
          /\ uc' = receive_stream(uc, data)
    /\ pc' = "received"
    /\ UNCHANGED <<rx, args, parsed, vb, ac, arrivals, sendVars, held, rr, session, threads>>

\* AdvancedUDPVideoClient._receive_stream: recvfrom returns data, one iteration
AdvReceiveDatagram ==
    /\ rx = "adv" /\ Running
    /\ \E data \in LoopDatagrams :
          /\ wire' = data
          /\ LET st == _receive_stream([ac |-> ac, vb |-> vb], data, TRUE)
             IN  ac' = st.ac /\ vb' = st.vb
    /\ pc' = "received"
    /\ UNCHANGED <<rx, args, parsed, uc, arrivals, sendVars, held, rr, session, threads>>

\* UDPStreamingClient.receive_stream: recvfrom raises socket.timeout
ReceiveTimeout ==
    /\ rx = "basic" /\ Running
    /\ uc' = leave_receive_loop(uc)
    /\ pc' = "timeout"
    /\ UNCHANGED <<rx, codecVars, vb, ac, arrivals, sendVars, held, rr, session, threads>>

\* AdvancedUDPVideoClient._receive_stream: recvfrom raises socket.timeout,
\* the except clause continues the loop
AdvReceiveTimeout ==
    /\ rx = "adv" /\ Running
    /\ pc' = "timeout"
    /\ UNCHANGED <<rx, codecVars, uc, vb, ac, arrivals, sendVars, held, rr, session, threads>>

\* UDPStreamingClient.receive_stream: recvfrom raises another exception
ReceiveError ==
    /\ rx = "basic" /\ Running
    /\ uc' = leave_receive_loop(uc)
    /\ pc' = "error"
    /\ UNCHANGED <<rx, codecVars, vb, ac, arrivals, sendVars, held, rr, session, threads>>

\* AdvancedUDPVideoClient._receive_stream: recvfrom raises another exception
AdvReceiveError ==
    /\ rx = "adv" /\ Running
    /\ LET st == leave_receive_stream([ac |-> ac, vb |-> vb], "exception")
       IN  ac' = st.ac /\ vb' = st.vb
    /\ pc' = "error"
    /\ UNCHANGED <<rx, codecVars, uc, arrivals, sendVars, held, rr, session, threads>>

\* UDPStreamingClient.monitor_streaming_progress once its loop is left: the
\* final progress report
MonitorStreamingProgress ==
    /\ rx = "basic" /\ ~Running /\ pc # "reported"
    /\ uc' = IF uc.streaming_complete THEN [uc EXCEPT !.final_report = @ + 1] ELSE uc
    /\ pc' = "reported"
    /\ UNCHANGED <<rx, codecVars, vb, ac, arrivals, sendVars, held, rr, session, threads>>

\* AdvancedUDPVideoClient.stop_streaming: the flag of the loop is cleared
StopStreaming ==
    /\ rx = "adv" /\ Running
    /\ ac' = [ac EXCEPT !.streaming = FALSE]
    /\ pc' = "stopping"
    /\ UNCHANGED <<rx, codecVars, uc, vb, arrivals, sendVars, held, rr, session, threads>>

\* AdvancedUDPVideoClient._receive_stream after stop_streaming: the recvfrom
\* in progress returns (an empty datagram stands for its timeout), the
\* iteration is completed, the while condition fails and the finally clause
\* runs
AdvLoopStopped ==
    /\ rx = "adv" /\ ~ac.streaming /\ ac.ended_by = "none"
    /\ \E data \in LoopDatagrams :
          /\ wire' = data
          /\ LET it == _receive_stream([ac |-> ac, vb |-> vb], data, TRUE)
                 st == IF it.ac.ended_by = "none"
                       THEN leave_receive_stream(it, "stopped") ELSE it
             IN  ac' = st.ac /\ vb' = st.vb
    /\ pc' = "stopped"
    /\ UNCHANGED <<rx, args, parsed, uc, arrivals, sendVars, held, rr, session, threads>>

NextLoop ==
    \/ LoopDeliver
    \/ ReceiveDatagram
    \/ AdvReceiveDatagram
    \/ ReceiveTimeout
    \/ AdvReceiveTimeout
    \/ ReceiveError
    \/ AdvReceiveError
    \/ MonitorStreamingProgress
    \/ StopStreaming
    \/ AdvLoopStopped

SpecLoop == InitLoop /\ [][NextLoop]_vars

\* the decoder of the client under test rejects the datagram
Rejected(data) ==
    IF rx = "basic" THEN parse_data_packet(data).type = "INVALID"
    ELSE parse_packet(data).type = "None"

C10_Step ==
    (pc' = "received" /\ BLen(wire') < HeaderSize) =>
        /\ Rejected(wire')
        /\ Output' = Output
        /\ Expected' = Expected
        /\ BytesReceived' = BytesReceived
        /\ Store' = Store
        /\ Running'

\* C16: once a receive timeout has fired the session has ended: the loop has
\* stopped and takes no further packet.
C16_TimeoutEndsSession == pc = "timeout" => ~Running

\* a datagram that fails to decode: an INFO message whose body is not JSON,
\* or a packet that is too short, has an undecodable header or an unknown
\* type byte
Undecodable(data) ==
    IF StartsWith(data, Bytes(<<73, 78, 70, 79, 58>>))
    THEN json_loads(BDrop(data, 5)).error
    ELSE IF StartsWith(data, Bytes(<<69, 82, 82, 79, 82, 58>>)) THEN FALSE
    ELSE \/ BLen(data) < HeaderSize
         \/ ~AllLiteral(BTake(data, HeaderSize))
         \/ Chr(data[1].v) \notin {"D", "E", "I"}

C18_Step == (pc' = "received" /\ Undecodable(wire')) => Running'

\* C18: a received datagram that fails to decode does not end the receive
\* loop.
C18_BadDatagramKeepsLoop == [][C18_Step]_vars

\* the receive session is over and the receiver has done all it does
SessionOver == IF rx = "basic" THEN pc = "reported" ELSE ~ac.streaming

\* the final summaries emitted
Summaries == IF rx = "basic" THEN uc.final_report ELSE ac.final_stats

\* C20: when a receive session has ended, by END, by timeout or by an
\* error, the receiver has emitted its final summary.
C20_FinalSummary == SessionOver => Summaries = 1

\* C10: a received datagram shorter than the 25-byte header is rejected by
\* the decoder; the receiver writes nothing, leaves expected_sequence,
\* bytes_received and the out-of-order store as they were, and the session
\* keeps running.
C10_ShortDatagramIgnored == [][C10_Step]_vars

----------------------------------------------------------------------------
(* SpecRTP: RTP packets reach RTPReceiver.receive_packet in any order *)

MaxRTPArrivals == 4

\* RTPReceiver(buffer_size=...)
RTPBufferSizes == {2, 5}

\* header.sequence_number (16 bits) of the packets that arrive
RTPSeqChoices == {0, 1, 2, 3, 4, 100, 65535}

\* long in-order runs in one behaviour
MaxRuns == 1

\* the lengths of the long in-order runs: almost a whole pass over the
\* 16-bit sequence space
RunLengths == {65533, 65534}

\* a packet of RTPSession.create_packet: timestamp tells the packets of two
\* passes over the sequence space apart
RTPPacketAt(sequence_number, timestamp) ==
    [sequence_number |-> sequence_number, timestamp |-> timestamp, payload_len |-> 160]

RTPPacket(sequence_number) == RTPPacketAt(sequence_number, 0)

InitRTP ==
    /\ threads = <<>>
    /\ pc = "rtp"
    /\ rx = "rtp"
    /\ CodecIdle
    /\ ReceiversIdle
    /\ SendersIdle
    /\ \E buffer_size \in RTPBufferSizes : rr = RTPReceiver_init(buffer_size)
    /\ RTSPIdle

RTPReceive ==
    /\ pc = "rtp"
    /\ Len(arrivals) < MaxRTPArrivals
    /\ \E sequence_number \in RTPSeqChoices, timestamp \in 0..rr.runs :
          /\ LET r == receive_packet(rr, RTPPacketAt(sequence_number, timestamp))
             IN  rr' = [r EXCEPT !.returned = @ \o r.ready_packets]
          /\ arrivals' = Append(arrivals, sequence_number)
    /\ UNCHANGED <<pc, rx, codecVars, uc, vb, ac, sendVars, held, session, threads>>

\* the sender's next n packets all arrive, in sending order
RTPReceiveRun ==
    /\ pc = "rtp"
    /\ rr.runs < MaxRuns
    /\ \E n \in RunLengths :
          /\ in_order_applies(rr, n)
          /\ rr' = receive_in_order(rr, n, 160)
    /\ UNCHANGED <<pc, rx, codecVars, recvVars, sendVars, held, session, threads>>

NextRTP == RTPReceive \/ RTPReceiveRun

SpecRTP == InitRTP /\ [][NextRTP]_vars

\* C11: with buffer_size 5, after sequence 0 and then sequence 100 were
\* received, sequence 100 is not held in the buffer, it was counted in
\* packets_lost, and expected_sequence is 1.
C11_FarAheadEvicted ==
    (rr.buffer_size = 5 /\ arrivals = <<0, 100>>) =>
        /\ 100 \notin DOMAIN rr.buffer
        /\ rr.packets_lost >= 1
        /\ rr.expected_sequence = 1

\* C12: the out-of-order store never holds more entries than buffer_size.
C12_BufferBounded == Cardinality(DOMAIN rr.buffer) <= rr.buffer_size

----------------------------------------------------------------------------
(* The END packet of a stream, under SpecSend *)

\* the number of DATA packets among the first n datagrams sent to address a
DataSentBefore(a, n) ==
    Cardinality({j \in 1..n : IsDataPacket(sent[a][j])})

\* C13 as stated: the sequence field of the END packet equals the number of
\* DATA packets sent in the stream.
C13_EndSeqIsCount ==
    \A a \in Addrs : \A i \in 1..Len(sent[a]) :
        IsEndPacket(sent[a][i]) =>
            SentHeader(sent[a][i]).s = DataSentBefore(a, i - 1)

\* C13 amended: the sequence field of the END packet equals the stream's
\* starting sequence value plus the number of DATA packets sent: the count
\* itself for stream_file (start 0), the count plus 1 for
\* _stream_file_adaptive (start 1).
C13_EndSeqIsStartPlusCount ==
    \A a \in Addrs : \A i \in 1..Len(sent[a]) :
        IsEndPacket(sent[a][i]) =>
            SentHeader(sent[a][i]).s = StartSeq(rx) + DataSentBefore(a, i - 1)

\* C13 witness: a stream of at least two DATA packets has sent END
C13_Witness ==
    \E a \in Addrs :
        /\ Len(sent[a]) > 0
        /\ IsEndPacket(sent[a][Len(sent[a])])
        /\ DataSentBefore(a, Len(sent[a])) >= 2
        /\ \A s \in StreamIds : streams[s].state = "done"

\* the send loops run on: a thread whose loop has ended sends its END packet
FairSend ==
    SpecSend /\ WF_vars(StreamFileEnd) /\ WF_vars(StreamFileAdaptiveEnd)

\* the positions of the END packets among the datagrams sent to address a
EndsSent(a) == {i \in 1..Len(sent[a]) : IsEndPacket(sent[a][i])}

\* the stream s has sent its whole source
Exhausted(s) ==
    streams[s].state \in {"run", "done"} /\ ~(streams[s].bytes_sent < streams[s].total_size)

C14_Safety ==
    \A s \in StreamIds :
        LET ends == EndsSent(streams[s].addr)
        IN  /\ streams[s].state = "idle" => \A a \in Addrs : EndsSent(a) = {}
            /\ streams[s].state = "run" => ends = {}
            /\ streams[s].state = "done" =>
                  /\ Cardinality(ends) = 1
                  /\ ends = {Len(sent[streams[s].addr])}
                  /\ Exhausted(s)

\* C14: a stream that exhausts its source sends exactly one END packet, after
\* its last DATA packet, and no DATA packet after it.
C14_ExactlyOneEnd ==
    /\ [](C14_Safety)
    /\ \A s \in StreamIds :
          (Exhausted(s) ~> (streams[s].state = "done"
                            /\ Cardinality(EndsSent(streams[s].addr)) = 1))

\* C14 witness: a stream has sent DATA packets and then its END packet, which
\* is the last datagram sent
C14_Witness ==
    \E s \in StreamIds :
        /\ streams[s].state = "done"
        /\ streams[s].packet_count >= 1
        /\ EndsSent(streams[s].addr) = {Len(sent[streams[s].addr])}
        /\ IsDataPacket(sent[streams[s].addr][Len(sent[streams[s].addr]) - 1])

----------------------------------------------------------------------------
(* SpecServe: the servers take stream requests from two client addresses,
   each request in a thread of its own; a send loop may fail on its source *)

ServeThreads == {1, 2}

ServeAddrs == {"c1", "c2"}

\* the media directory holds one file; a request names it or a file that
\* is not there
ServeFile == [size |-> 1500, extension |-> ".mp4"]

ServeRequests == {"clip.mp4", "absent.mp4"}

\* requests for a file that is not there, over the whole run
MaxRejected == 1

\* f"ERROR: File '{filename}' not found".encode('utf-8')
not_found_msg == Bytes(<<69, 82, 82, 79, 82, 58>>) \o Garbage(20)

\* f"ERROR: Streaming failed - {str(e)}".encode('utf-8')
error_msg == Bytes(<<69, 82, 82, 79, 82, 58>>) \o Garbage(30)

\* the ERROR packet of AdvancedUDPVideoServer.handle_client_request
not_found_packet == create_packet("ERROR", 0, JsonError, 0, 0)

\* the answers given so far to requests for a file that is not there
Rejected_requests ==
    UNION {{<<a, i>> : i \in {j \in DOMAIN sent[a] :
                                 sent[a][j] \in {not_found_msg, not_found_packet}}} :
           a \in DOMAIN sent}

\* the thread a new request runs in
NextThread == CHOOSE s \in DOMAIN streams :
                  /\ streams[s].state = "idle"
                  /\ \A t \in DOMAIN streams : streams[t].state = "idle" => s <= t

InitServe ==
    /\ threads = <<>>
    /\ RTPIdle
    /\ RTSPIdle
    /\ pc = "send"
    /\ rx \in {"basic", "adv"}
    /\ CodecIdle
    /\ ReceiversIdle
    /\ now = 100000
    /\ monitors = [a \in ServeAddrs |-> NetworkMonitor_init]
    /\ streams = [s \in ServeThreads |-> IdleStream]
    /\ sent = [a \in ServeAddrs |-> <<>>]
    /\ rpos = 0
    /\ held = {}
    /\ steps = 0

\* UDPStreamingServer.handle_client_request for "STREAM:<filename>" from
\* address a, in a new thread: stream_file up to its loop
HandleStreamRequest ==
    /\ pc = "send" /\ rx = "basic"
    /\ \E s \in DOMAIN streams : streams[s].state = "idle"
    /\ \E a \in DOMAIN sent, filename \in ServeRequests :
          IF filename = "absent.mp4"
          THEN /\ Cardinality(Rejected_requests) < MaxRejected
               /\ sent' = [sent EXCEPT ![a] = Append(@, not_found_msg)]
               /\ UNCHANGED streams
          ELSE /\ sent' = [sent EXCEPT ![a] = Append(@, info_msg(ServeFile.size))]
               /\ streams' = [streams EXCEPT ![NextThread] =
                                 [state |-> "run", server |-> "basic", addr |-> a,
                                  seq_num |-> 0, bytes_sent |-> 0,
                                  total_size |-> ServeFile.size,
                                  range |-> basic_chunk_range, packet_count |-> 0]]
    /\ UNCHANGED <<held, rr, session, threads, pc, rx, codecVars, recvVars, now, monitors, rpos, steps>>

\* AdvancedUDPVideoServer.handle_client_request for a 'stream_file' request
\* from address a, in a new thread
AdvHandleStreamRequest ==
    /\ pc = "send" /\ rx = "adv"
    /\ \E s \in DOMAIN streams : streams[s].state = "idle"
    /\ \E a \in DOMAIN sent, filename \in ServeRequests :
          IF filename = "absent.mp4"
          THEN /\ Cardinality(Rejected_requests) < MaxRejected
               /\ sent' = [sent EXCEPT ![a] = Append(@, not_found_packet)]
               /\ UNCHANGED streams
          ELSE LET metadata == VideoMetadata(ServeFile.size, ServeFile.extension)
               IN  /\ sent' = [sent EXCEPT ![a] =
                                  Append(@, create_packet("INFO", 0,
                                                          JsonBody(metadata.size),
                                                          metadata.size, 0))]
                   /\ streams' = [streams EXCEPT ![NextThread] =
                                     [state |-> "run", server |-> "adv", addr |-> a,
                                      seq_num |-> 1, bytes_sent |-> 0,
                                      total_size |-> metadata.size,
                                      range |-> chunk_range("auto", metadata),
                                      packet_count |-> 0]]
    /\ UNCHANGED <<held, rr, session, threads, pc, rx, codecVars, recvVars, now, monitors, rpos, steps>>

\* a failure that ends every send loop of the server, not only its own
StreamFileFail_all ==
    /\ pc = "send"
    /\ \E s \in DOMAIN streams :
          LET st == streams[s] IN
          /\ st.state = "run" /\ st.server = "basic"
          /\ st.bytes_sent < st.total_size
          /\ sent' = [sent EXCEPT ![st.addr] = Append(@, error_msg)]
          /\ streams' = [t \in DOMAIN streams |->
                            IF streams[t].state = "run"
                            THEN [streams[t] EXCEPT !.state = "failed"]
                            ELSE streams[t]]
    /\ UNCHANGED <<held, rr, session, threads, pc, rx, codecVars, recvVars, now, monitors, rpos, steps>>

\* stream_file: reading the source raises; the except clause sends an ERROR
\* message
StreamFileFail ==
    /\ pc = "send"
    /\ \E s \in DOMAIN streams :
          LET st == streams[s] IN
          /\ st.state = "run" /\ st.server = "basic"
          /\ st.bytes_sent < st.total_size
          /\ sent' = [sent EXCEPT ![st.addr] = Append(@, error_msg)]
          /\ streams' = [streams EXCEPT ![s].state = "failed"]
    /\ UNCHANGED <<held, rr, session, threads, pc, rx, codecVars, recvVars, now, monitors, rpos, steps>>

\* _stream_file_adaptive: reading the source raises; the except clause prints
StreamFileAdaptiveFail ==
    /\ pc = "send"
    /\ \E s \in DOMAIN streams :
          LET st == streams[s] IN
          /\ st.state = "run" /\ st.server = "adv"
          /\ st.bytes_sent < st.total_size
          /\ streams' = [streams EXCEPT ![s].state = "failed"]
    /\ UNCHANGED <<held, rr, session, threads, pc, rx, codecVars, recvVars, now, monitors, sent, rpos, steps>>

NextServe ==
    \/ HandleStreamRequest
    \/ StreamFileSend
    \/ StreamFileEnd
    \/ StreamFileFail
    \/ AdvHandleStreamRequest
    \/ StreamFileAdaptiveSend
    \/ StreamFileAdaptiveEnd
    \/ StreamFileAdaptiveFail

SpecServe == InitServe /\ [][NextServe]_vars

\* C15: two send loops never transmit DATA packets to the same client
\* address at the same time.
C15_OneLoopPerAddress ==
    \A s, t \in DOMAIN streams :
        (s # t /\ streams[s].state = "run" /\ streams[t].state = "run"
              /\ streams[s].packet_count >= 1 /\ streams[t].packet_count >= 1)
            => streams[s].addr # streams[t].addr

\* an ERROR datagram that can tell a client its stream failed: the text
\* message of stream_file's except clause, or any ERROR packet of the
\* advanced server
IsErrorDatagram(d) == d \in {error_msg, not_found_packet}

\* C17: a send loop that ends on a failure to read its source has sent an
\* ERROR packet or message to its client.
C17_ErrorSentOnFailure ==
    \A s \in DOMAIN streams :
        streams[s].state = "failed" =>
            \E i \in DOMAIN sent[streams[s].addr] :
                IsErrorDatagram(sent[streams[s].addr][i])

\* the positions of the DATA packets sent to address a
DataSent(a) == {i \in 1..Len(sent[a]) : IsDataPacket(sent[a][i])}

\* an END packet: type E and no payload (an ERROR answer has a body)
IsStreamEnd(d) == IsEndPacket(d) /\ BLen(d) = HeaderSize

\* stream t is the only stream of its client address
OnlyStreamOfAddress(t) ==
    \A u \in DOMAIN streams : u # t => streams[u].addr # streams[t].addr

\* what stream t has sent is what it sends when it runs alone: DATA packets
\* numbered consecutively from the starting value, each carrying the number
\* of bytes sent before it, and, once the source is exhausted, one END packet
\* after them with the next sequence value
SentAsAlone(t) ==
    LET st == streams[t]
        a == st.addr
        H(i) == SentHeader(sent[a][i])
    IN  /\ Cardinality(DataSent(a)) = st.packet_count
        /\ \A i \in DataSent(a) :
              /\ H(i).s = StartSeq(rx) + DataSentBefore(a, i - 1)
              /\ DataSentBefore(a, i - 1) = 0 => H(i).bs = 0
              /\ \A j \in DataSent(a) :
                    DataSentBefore(a, j - 1) = DataSentBefore(a, i - 1) + 1
                        => H(j).bs = H(i).bs + PayloadLen(sent[a][i])
              /\ DataSentBefore(a, i) = st.packet_count
                    => H(i).bs + PayloadLen(sent[a][i]) = st.bytes_sent
        /\ st.state = "done" =>
              \E e \in 1..Len(sent[a]) :
                  /\ IsStreamEnd(sent[a][e])
                  /\ H(e).s = StartSeq(rx) + st.packet_count
                  /\ \A i \in DataSent(a) : i < e
        /\ st.state = "run" => \A e \in 1..Len(sent[a]) : ~IsStreamEnd(sent[a][e])

\* the step in which the send loop of stream s fails
FailureOf(s) == streams[s].state = "run" /\ streams'[s].state = "failed"

C19_Step ==
    \A s \in DOMAIN streams :
        FailureOf(s) =>
            /\ \A t \in DOMAIN streams : t # s => streams'[t] = streams[t]
            /\ \A a \in DOMAIN sent : a # streams[s].addr => sent'[a] = sent[a]
            /\ monitors' = monitors

C19_State ==
    \A s, t \in DOMAIN streams :
        (/\ streams[s].state = "failed"
         /\ streams[t].state \in {"run", "done"}
         /\ OnlyStreamOfAddress(t))
            => SentAsAlone(t)

\* C19: a failure in one send loop ends only that loop; the send loop of
\* another client address is left as it was, and what it sends (sequence
\* numbers, bytes_sent values, END packet) is what it sends when it runs
\* alone.
C19_FailureIsolated == [][C19_Step]_vars /\ []C19_State

\* C19 witness: one send loop has failed and the loop of the other address
\* has sent two DATA packets and its END
C19_Witness ==
    \E s, t \in DOMAIN streams :
        /\ streams[s].state = "failed"
        /\ streams[t].state = "done"
        /\ streams[t].addr # streams[s].addr
        /\ streams[t].packet_count = 2
        /\ Len(sent[streams[t].addr]) = 4

----------------------------------------------------------------------------
(* END at the receiver *)

\* the receive loop was left through its END branch
EndedByEnd == IF rx = "basic" THEN uc.streaming_complete ELSE ac.ended_by = "E"

C21_Step ==
    /\ (pc' = "received" /\ IsStreamEnd(wire')) => (~Running' /\ EndedByEnd')
    /\ EndedByEnd => Output' = Output

\* C21: the step that receives an END packet marks the stream complete and
\* stops the receive loop, whatever is still held out of order, and nothing
\* is written to the output once END has been processed.
C21_EndStopsReassembly == [][C21_Step]_vars

----------------------------------------------------------------------------
(* INFO at the sender *)

\* an INFO datagram: the text message b"INFO:..." of UDPStreamingServer or a
\* packet of type I of AdvancedUDPVideoServer
IsInfoDatagram(d) == Len(d) > 0 /\ d[1].k = "b" /\ d[1].v = Ord("I")

\* the total size an INFO datagram carries in its JSON body
InfoSize(d) ==
    IF StartsWith(d, Bytes(<<73, 78, 70, 79, 58>>))
    THEN json_loads(BDrop(d, 5)).size
    ELSE json_loads(BDrop(d, HeaderSize)).size

InfoSent(a) == {i \in 1..Len(sent[a]) : IsInfoDatagram(sent[a][i])}

\* C22: a stream that was started has sent exactly one INFO datagram, it
\* carries the total size of the stream, and it precedes every DATA packet.
C22_OneInfoFirst ==
    \A s \in DOMAIN streams :
        LET st == streams[s]
            a == st.addr
        IN  st.state # "idle" =>
               /\ InfoSent(a) = {1}
               /\ InfoSize(sent[a][1]) = st.total_size
               /\ rx = "adv" => SentHeader(sent[a][1]).ts = st.total_size
               /\ \A i \in DataSent(a) : i > 1

\* C22 witness: a stream has sent INFO, two DATA packets and END
C22_Witness ==
    \E s \in DOMAIN streams :
        /\ streams[s].state = "done"
        /\ streams[s].packet_count = 2
        /\ Len(sent[streams[s].addr]) = 4
        /\ IsInfoDatagram(sent[streams[s].addr][1])
        /\ InfoSize(sent[streams[s].addr][1]) = 2700

----------------------------------------------------------------------------
(* UDPStreamingServer.handle_client_request.  A request is the sequence of
   its characters; "xFF" stands for a byte that is not UTF-8. *)

\* s.startswith(prefix)
str_startswith(s, prefix) ==
    Len(s) >= Len(prefix) /\ SubSeq(s, 1, Len(prefix)) = prefix

\* s.endswith(suffix)
str_endswith(s, suffix) ==
    Len(s) >= Len(suffix) /\ SubSeq(s, Len(s) - Len(suffix) + 1, Len(s)) = suffix

\* s.lower(), for the letters the requests use
str_lower(s) ==
    [i \in 1..Len(s) |->
        CASE s[i] = "M" -> "m" [] s[i] = "P" -> "p" [] s[i] = "A" -> "a"
          [] s[i] = "T" -> "t" [] s[i] = "X" -> "x" [] OTHER -> s[i]]

\* s.strip()
RECURSIVE str_strip(_)
str_strip(s) ==
    IF s = <<>> THEN s
    ELSE IF Head(s) = " " THEN str_strip(Tail(s))
    ELSE IF s[Len(s)] = " " THEN str_strip(SubSeq(s, 1, Len(s) - 1))
    ELSE s

\* s.split(":", 1)[1] of a string that holds a colon
after_colon(s) ==
    LET i == CHOOSE j \in 1..Len(s) : s[j] = ":" /\ \A k \in 1..(j - 1) : s[k] # ":"
    IN  SubSeq(s, i + 1, Len(s))

\* data.decode('utf-8') raises UnicodeDecodeError
decode_fails(data) == \E i \in 1..Len(data) : data[i] = "xFF"

\* the extensions of is_media_file that the requests use
media_extensions == {<<".", "m", "p", "4">>, <<".", "m", "p", "3">>, <<".", "m", "k", "v">>}

is_media_file(filename) ==
    \E ext \in media_extensions : str_endswith(str_lower(filename), ext)

\* the media directory: a media file and a text file, with their sizes
MediaDirectory ==
    {[name |-> <<"a", ".", "m", "p", "4">>, size |-> 1500],
     [name |-> <<"n", ".", "t", "x", "t">>, size |-> 300]}

\* os.path.exists(os.path.join(media_directory, filename)); the empty name
\* is the directory itself
path_exists(filename) ==
    filename = <<>> \/ \E f \in MediaDirectory : f.name = filename

getsize(filename) == (CHOOSE f \in MediaDirectory : f.name = filename).size

\* f"FILES:{file_list}".encode('utf-8')
files_msg == Bytes(<<70, 73, 76, 69, 83, 58>>) \o <<[k |-> "l", v |-> 0, n |-> 30]>>

\* f"ERROR: '{filename}' is not a supported media file".encode('utf-8')
unsupported_msg == Bytes(<<69, 82, 82, 79, 82, 58>>) \o Garbage(40)

\* "ERROR: Invalid request format".encode('utf-8')
invalid_msg == Bytes(<<69, 82, 82, 79, 82, 58>>) \o Garbage(23)

\* f"ERROR: {str(e)}".encode('utf-8') of the except clause
exception_msg == Bytes(<<69, 82, 82, 79, 82, 58>>) \o Garbage(50)

\* mutant: any file that exists is streamed
stream_file_start_any(filename) ==
    IF ~path_exists(filename) \/ filename = <<>>
    THEN [reply |-> not_found_msg, stream |-> None]
    ELSE [reply |-> info_msg(getsize(filename)), stream |-> getsize(filename)]

\* stream_file up to its loop: the datagram sent and the size of the file
\* whose send loop starts (None if no loop starts)
stream_file_start(filename) ==
    IF ~path_exists(filename) THEN [reply |-> not_found_msg, stream |-> None]
    ELSE IF ~is_media_file(filename) THEN [reply |-> unsupported_msg, stream |-> None]
    ELSE [reply |-> info_msg(getsize(filename)), stream |-> getsize(filename)]

handle_client_request(data) ==
    IF decode_fails(data) THEN [reply |-> exception_msg, stream |-> None]
    ELSE IF str_startswith(data, <<"L", "I", "S", "T">>)
    THEN [reply |-> files_msg, stream |-> None]
    ELSE IF str_startswith(data, <<"S", "T", "R", "E", "A", "M", ":">>)
    THEN stream_file_start(str_strip(after_colon(data)))
    ELSE [reply |-> invalid_msg, stream |-> None]

\* the requests of the clients and of test_streaming.py, and their
\* neighbours
RequestChoices ==
    {<<"L", "I", "S", "T">>,
     <<"L", "I", "S", "T", "X">>,
     <<"L", "I", "S">>,
     <<>>,
     <<"I", "N", "V", "A", "L", "I", "D", "_", "R", "E", "Q", "U", "E", "S", "T">>,
     <<"S", "T", "R", "E", "A", "M">>,
     <<"s", "t", "r", "e", "a", "m", ":", "a", ".", "m", "p", "4">>,
     <<"S", "T", "R", "E", "A", "M", ":", "a", ".", "m", "p", "4">>,
     <<"S", "T", "R", "E", "A", "M", ":", " ", "a", ".", "m", "p", "4", " ">>,
     <<"S", "T", "R", "E", "A", "M", ":", "A", ".", "M", "P", "4">>,
     <<"S", "T", "R", "E", "A", "M", ":", "a", ".", "M", "P", "4">>,
     <<"S", "T", "R", "E", "A", "M", ":", "n", ".", "t", "x", "t">>,
     <<"S", "T", "R", "E", "A", "M", ":", "b", ".", "m", "p", "4">>,
     <<"S", "T", "R", "E", "A", "M", ":", "b", ".", "t", "x", "t">>,
     <<"S", "T", "R", "E", "A", "M", ":">>,
     <<"S", "T", "R", "E", "A", "M", ":", "a", ".", "m", "p", "4", ":", "x">>,
     <<"L", "xFF">>}

\* requests handled over the whole run
MaxRequests == 2

\* the datagrams sent in answer to a request: all that is neither DATA nor END
Replies ==
    UNION {{<<a, i>> : i \in {j \in DOMAIN sent[a] :
                                 ~IsDataPacket(sent[a][j]) /\ ~IsStreamEnd(sent[a][j])}} :
           a \in DOMAIN sent}

InitRequest ==
    /\ threads = <<>>
    /\ RTPIdle
    /\ RTSPIdle
    /\ pc = "send"
    /\ rx = "basic"
    /\ CodecIdle
    /\ ReceiversIdle
    /\ now = 100000
    /\ monitors = [a \in ServeAddrs |-> NetworkMonitor_init]
    /\ streams = [s \in ServeThreads |-> IdleStream]
    /\ sent = [a \in ServeAddrs |-> <<>>]
    /\ rpos = 0
    /\ held = {}
    /\ steps = 0

\* start_server receives data from client_address and runs
\* handle_client_request in a new thread: the request up to the send loop;
\* args keeps the request handled last and its number
HandleClientRequest ==
    /\ pc = "send" /\ rx = "basic"
    /\ Cardinality(Replies) < MaxRequests
    /\ \E s \in DOMAIN streams : streams[s].state = "idle"
    /\ \E client_address \in DOMAIN sent, data \in RequestChoices :
          LET r == handle_client_request(data) IN
          /\ args' = [kind |-> "request", data |-> data, addr |-> client_address,
                       n |-> Cardinality(Replies) + 1]
          /\ sent' = [sent EXCEPT ![client_address] = Append(@, r.reply)]
          /\ streams' = IF r.stream = None THEN streams
                        ELSE [streams EXCEPT ![NextThread] =
                                 [state |-> "run", server |-> "basic",
                                  addr |-> client_address,
                                  seq_num |-> 0, bytes_sent |-> 0,
                                  total_size |-> r.stream,
                                  range |-> basic_chunk_range, packet_count |-> 0]]
    /\ UNCHANGED <<held, rr, session, threads, pc, rx, wire, parsed, recvVars, now, monitors, rpos, steps>>

NextRequest == HandleClientRequest \/ StreamFileSend \/ StreamFileEnd

SpecRequest == InitRequest /\ [][NextRequest]_vars

\* the file a STREAM request names
RequestedName(data) == str_strip(after_colon(data))

\* a STREAM request that names a file that is missing or not a media file
NamesNoMedia(data) ==
    /\ ~decode_fails(data)
    /\ str_startswith(data, <<"S", "T", "R", "E", "A", "M", ":">>)
    /\ (~path_exists(RequestedName(data)) \/ ~is_media_file(RequestedName(data)))

\* the step handles a request: it answers with an ERROR message and starts
\* no stream
AnsweredWithError ==
    /\ \E d \in {not_found_msg, unsupported_msg, invalid_msg, exception_msg} :
          sent' = [sent EXCEPT ![args'.addr] = Append(@, d)]
    /\ streams' = streams

----------------------------------------------------------------------------
(* SpecRTSP: any sequence of transition_to calls on one RTSPSession *)

\* calls of transition_to in one run
MaxTransitions == 7

\* the state names a caller may ask for: the three states, the names of
\* RTSP methods, a lower-case name and the empty string
NewStateChoices == {"INIT", "READY", "PLAYING", "PAUSED", "TEARDOWN", "ready", ""}

InitRTSP ==
    /\ threads = <<>>
    /\ pc = "rtsp"
    /\ rx = "rtsp"
    /\ CodecIdle
    /\ ReceiversIdle
    /\ SendersIdle
    /\ RTPIdle
    /\ RTSPIdle

\* session.transition_to(new_state), one clock tick after the last call
TransitionTo ==
    /\ pc = "rtsp"
    /\ session.clock < MaxTransitions
    /\ \E new_state \in NewStateChoices :
          session' = transition_to([session EXCEPT !.clock = @ + 1], new_state)
    /\ UNCHANGED <<pc, rx, codecVars, recvVars, sendVars, held, rr, threads>>

NextRTSP == TransitionTo

SpecRTSP == InitRTSP /\ [][NextRTSP]_vars

\* the transitions that succeed
AllowedTransitions ==
    {<<"INIT", "READY">>, <<"READY", "PLAYING">>, <<"READY", "INIT">>,
     <<"PLAYING", "READY">>}

C24_Step ==
    session'.clock # session.clock =>
        IF <<session.state, session'.requested>> \in AllowedTransitions
        THEN session'.returned /\ session'.state = session'.requested
        ELSE ~session'.returned /\ session'.state = session.state

\* C24: transition_to returns True and changes the state only for
\* INIT->READY, READY->PLAYING, READY->INIT and PLAYING->READY; for every
\* other requested state it returns False and leaves the state unchanged.
C24_OnlyValidTransitions == [][C24_Step]_vars

\* C24 witness: the session went INIT, READY, PLAYING, and a request for INIT
\* was then refused with the state left at PLAYING
C24_Witness ==
    /\ session.clock = 3
    /\ session.last_activity = 2
    /\ session.state = "PLAYING"
    /\ session.requested = "INIT"
    /\ ~session.returned

----------------------------------------------------------------------------
(* RTPPacketBuilder and RTPPacketParser.  Payloads are literal bytes. *)

\* struct.pack('!H', x)
PackH(x) == <<Byte((x \div 256) % 256), Byte(x % 256)>>

\* struct.unpack('!H', b)[0]
UnpackH(b) == b[1].v * 256 + b[2].v

\* the CSRC words of build_packet
RECURSIVE PackCsrc(_)
PackCsrc(csrc) == IF csrc = <<>> THEN <<>> ELSE PackI(Head(csrc)) \o PackCsrc(Tail(csrc))

BoolInt(b) == IF b THEN 1 ELSE 0

\* RTPPacketBuilder.build_packet; the fields of a valid header do not
\* overlap, so each | is a sum
build_packet(header, payload) ==
    LET byte1 == header.version * 64 + BoolInt(header.padding) * 32
                    + BoolInt(header.extension) * 16 + (header.cc % 16)
        byte2 == BoolInt(header.marker) * 128 + (header.payload_type % 128)
    IN  PackB(byte1) \o PackB(byte2) \o PackH(header.sequence_number % 65536)
            \o PackI(header.timestamp) \o PackI(header.ssrc)
            \o PackCsrc(header.csrc) \o payload

\* RTPPacketParser.parse_packet; error stands for ValueError
rtp_parse_packet(data) ==
    IF Len(data) < 12 THEN [error |-> TRUE]
    ELSE LET byte1 == data[1].v
             byte2 == data[2].v
             cc == byte1 % 16
             padding == (byte1 \div 32) % 2 = 1
             csrc_offset == 12 + 4 * cc
         IN  IF csrc_offset > Len(data) THEN [error |-> TRUE]
             ELSE LET payload == SubSeq(data, csrc_offset + 1, Len(data))
                      padding_count == payload[Len(payload)].v
                  IN  [error   |-> FALSE,
                       header  |-> [version         |-> (byte1 \div 64) % 4,
                                    padding         |-> padding,
                                    extension       |-> (byte1 \div 16) % 2 = 1,
                                    cc              |-> cc,
                                    marker          |-> (byte2 \div 128) % 2 = 1,
                                    payload_type    |-> byte2 % 128,
                                    sequence_number |-> UnpackH(SubSeq(data, 3, 4)),
                                    timestamp       |-> UnpackI(SubSeq(data, 5, 8)),
                                    ssrc            |-> UnpackI(SubSeq(data, 9, 12)),
                                    csrc            |-> [i \in 1..cc |->
                                        UnpackI(SubSeq(data, 12 + 4 * i - 3, 12 + 4 * i))]],
                       payload |-> IF padding /\ Len(payload) > 0
                                      /\ padding_count <= Len(payload)
                                   THEN SubSeq(payload, 1,
                                               IF padding_count = 0 THEN 0
                                               ELSE Len(payload) - padding_count)
                                   ELSE payload]

\* RTPPacketParser.validate_header
validate_header(header) ==
    /\ header.version = 2
    /\ ~(header.cc > 15)
    /\ ~(header.payload_type > 127)
    /\ Len(header.csrc) = header.cc

----------------------------------------------------------------------------
(* SpecRTPCodec: build_packet, then parse_packet of what it built *)

RTPPayloadChoices ==
    {Bytes(<<>>), Bytes(<<1>>), Bytes(<<0>>), Bytes(<<116, 101, 115, 116>>),
     Bytes(<<9, 9, 2>>), Bytes(<<200, 3, 3>>)}

RTPCsrcChoices == {<<>>, <<7>>, <<1, 2147483647>>}

RTPHeaderChoices ==
    [version         : {1, 2},
     padding         : BOOLEAN,
     extension       : BOOLEAN,
     cc              : {0, 1, 2},
     marker          : BOOLEAN,
     payload_type    : {0, 96, 127},
     sequence_number : {100, 65535},
     timestamp       : {90000},
     ssrc            : {12345},
     csrc            : RTPCsrcChoices]

InitRTPCodec ==
    /\ threads = <<>>
    /\ RTPIdle
    /\ RTSPIdle
    /\ pc = "args"
    /\ rx = "rtp"
    /\ \E header \in RTPHeaderChoices, payload \in RTPPayloadChoices :
          args = [kind |-> "rtp", header |-> header, payload |-> payload]
    /\ wire = <<>>
    /\ parsed = [type |-> "None"]
    /\ ReceiversIdle
    /\ SendersIdle

\* RTPPacket.to_bytes
RTPBuildPacket ==
    /\ pc = "args" /\ args.kind = "rtp"
    /\ wire' = build_packet(args.header, args.payload)
    /\ pc' = "built"
    /\ UNCHANGED <<held, rr, session, threads, rx, args, parsed, recvVars, sendVars>>

\* RTPPacket.from_bytes
RTPParsePacket ==
    /\ pc = "built" /\ rx = "rtp"
    /\ parsed' = rtp_parse_packet(wire)
    /\ pc' = "parsed"
    /\ UNCHANGED <<held, rr, session, threads, rx, args, wire, recvVars, sendVars>>

NextRTPCodec == RTPBuildPacket \/ RTPParsePacket

SpecRTPCodec == InitRTPCodec /\ [][NextRTPCodec]_vars

\* C25: for every valid header and every payload, from_bytes of
\* build_packet(header, payload) has the same header fields and the same
\* payload.
C25_RTPRoundTrip ==
    (pc = "parsed" /\ rx = "rtp" /\ validate_header(args.header)) =>
        /\ ~parsed.error
        /\ parsed.header = args.header
        /\ parsed.payload = args.payload

----------------------------------------------------------------------------
(* the packets RTPReceiver returns *)

\* the sequence numbers of a list of packets follow one another from first
Consecutive(packets, first) ==
    \A i \in 1..Len(packets) : packets[i].sequence_number = (first + i - 1) % 65536

C26_Step ==
    (rr'.packets_received = rr.packets_received + 1) =>
        LET first == IF rr.expected_sequence = None
                     THEN arrivals'[Len(arrivals')] ELSE rr.expected_sequence
        IN  /\ Consecutive(rr'.ready_packets, first)
            /\ rr'.expected_sequence = (first + Len(rr'.ready_packets)) % 65536

C26_Once ==
    \A i, j \in 1..Len(rr.returned) : i # j => rr.returned[i] # rr.returned[j]

\* C26: the packets returned as ready carry consecutive sequence numbers
\* modulo 2^16 from the first one received, and no packet is returned twice:
\* a late duplicate of a packet already returned is not returned again, also
\* after the sequence number has wrapped around.
C26_ConsecutiveOnce == [][C26_Step]_vars /\ []C26_Once

----------------------------------------------------------------------------
(* SpecSession: a session from the request on: the datagrams of a stream
   reach the receive loop in any order, DATA before INFO among them *)

MaxSessionArrivals == 3

\* the datagrams of the servers' streams of NumPackets packets, in the
\* format of either server, and one that is no packet
SessionDatagrams ==
    {info_msg(StreamSize(NumPackets)),
     create_packet("INFO", 0, JsonBody(StreamSize(NumPackets)), StreamSize(NumPackets), 0),
     create_data_packet(0, StreamPayload(0), OffsetAt(0), StreamSize(NumPackets)),
     create_data_packet(1, StreamPayload(1), OffsetAt(1), StreamSize(NumPackets)),
     create_packet("D", 1, StreamPayload(0), StreamSize(NumPackets), OffsetAt(0)),
     create_packet("D", 2, StreamPayload(1), StreamSize(NumPackets), OffsetAt(1)),
     create_end_packet(NumPackets),
     create_packet("E", NumPackets + 1, <<>>, StreamSize(NumPackets),
                   StreamSize(NumPackets)),
     not_found_msg,
     not_found_packet,
     Garbage(30)}

\* the client objects of an earlier session, or none: expected_size is what
\* the earlier session left
EarlierSizes == {0, StreamSize(1)}

InitSession ==
    /\ threads = <<>>
    /\ RTPIdle
    /\ RTSPIdle
    /\ pc = "session"
    /\ rx \in {"basic", "adv"}
    /\ CodecIdle
    /\ \E size \in EarlierSizes :
          uc = request_media_file([UDPStreamingClient_init EXCEPT !.expected_size = size])
    /\ vb = VideoBuffer_init
    /\ ac = AdvancedUDPVideoClient_init
    /\ arrivals = <<>>
    /\ SendersIdle

\* UDPStreamingClient.receive_stream: recvfrom returns data, one iteration
SessionReceive ==
    /\ pc = "session" /\ rx = "basic" /\ Running
    /\ Len(arrivals) < MaxSessionArrivals
    /\ \E data \in SessionDatagrams :
          /\ arrivals' = Append(arrivals, data)
          /\ uc' = receive_stream(uc, data)
    /\ UNCHANGED <<pc, rx, codecVars, vb, ac, sendVars, held, rr, session, threads>>

\* AdvancedUDPVideoClient._receive_stream: recvfrom returns data, one iteration
AdvSessionReceive ==
    /\ pc = "session" /\ rx = "adv" /\ Running
    /\ Len(arrivals) < MaxSessionArrivals
    /\ \E data \in SessionDatagrams :
          /\ arrivals' = Append(arrivals, data)
          /\ LET st == _receive_stream([ac |-> ac, vb |-> vb], data, TRUE)
             IN  ac' = st.ac /\ vb' = st.vb
    /\ UNCHANGED <<pc, rx, codecVars, uc, sendVars, held, rr, session, threads>>

NextSession == SessionReceive \/ AdvSessionReceive

SpecSession == InitSession /\ [][NextSession]_vars

\* the client under test takes the datagram as the INFO of the stream and
\* reads the size from it
SetsSize(data) ==
    IF rx = "basic"
    THEN /\ StartsWith(data, Bytes(<<73, 78, 70, 79, 58>>))
         /\ ~json_loads(BDrop(data, 5)).error
         /\ json_loads(BDrop(data, 5)).size # None
    ELSE /\ parse_packet(data).type = "INFO"
         /\ ~json_loads(parse_packet(data).data).error
         /\ json_loads(parse_packet(data).data).size # None

\* an INFO packet of this session has set the size
SizeSet == \E i \in 1..Len(arrivals) : SetsSize(arrivals[i])

\* nothing was written to the buffer file, nothing is held for later
NothingStored ==
    IF rx = "basic"
    THEN uc.buffer_file = <<>> /\ uc.packets_buffer = EmptyDict /\ uc.received_bytes = 0
    ELSE vb.buffer_file = <<>> /\ vb.packets = EmptyDict /\ vb.bytes_received = 0

----------------------------------------------------------------------------
(* The header fields of the DATA packets of a stream, under SpecSend *)

\* the payload bytes of the DATA packets among the first n datagrams sent to
\* address a
RECURSIVE PayloadBefore(_, _)
PayloadBefore(a, n) ==
    IF n = 0 THEN 0
    ELSE PayloadBefore(a, n - 1)
            + (IF IsDataPacket(sent[a][n]) THEN PayloadLen(sent[a][n]) ELSE 0)

\* C28: in every DATA packet of a stream the bytes_sent field is the sum of
\* the payload lengths of the DATA packets of the stream sent before it (0
\* for the first) and the total_size field is the size of the source file.
C28_CumulativeBytes ==
    \A s \in DOMAIN streams :
        LET st == streams[s]
            a == st.addr
        IN  st.state # "idle" =>
               \A i \in DataSent(a) :
                   /\ SentHeader(sent[a][i]).bs = PayloadBefore(a, i - 1)
                   /\ SentHeader(sent[a][i]).ts = st.total_size
                   /\ SentHeader(sent[a][i]).ts = InfoSize(sent[a][1])

\* C28 witness: the third DATA packet of a stream was sent, after payloads of
\* different lengths
C28_Witness ==
    \E a \in Addrs : \E i \in DataSent(a) :
        /\ DataSentBefore(a, i - 1) = 2
        /\ SentHeader(sent[a][i]).bs = 1000 + 2000
        /\ SentHeader(sent[a][i]).ts > SentHeader(sent[a][i]).bs

\* the sequence number the receiver of the stream expects first: what
\* request_media_file sets for the basic client, VideoBuffer.__init__ for the
\* advanced one
InitialExpected ==
    IF rx = "basic" THEN request_media_file(UDPStreamingClient_init).sequence_expected
    ELSE VideoBuffer_init.next_expected_seq

\* C29: the DATA packets of a stream carry consecutive sequence numbers, the
\* first one the value the receiver expects first, each later one the
\* previous one's plus 1.
C29_ConsecutiveSeq ==
    \A s \in DOMAIN streams :
        LET st == streams[s]
            a == st.addr
        IN  st.state # "idle" =>
               \A i \in DataSent(a) :
                   SentHeader(sent[a][i]).s = InitialExpected + DataSentBefore(a, i - 1)

\* C29 witness: an adaptive stream has sent three DATA packets
C29_Witness ==
    \E s \in DOMAIN streams :
        /\ rx = "adv"
        /\ streams[s].packet_count = 3
        /\ Cardinality(DataSent(streams[s].addr)) = 3

----------------------------------------------------------------------------
(* SpecChunk: get_optimal_chunk_size is called on a monitor that has recorded
   packets, with any base range *)

\* base_range: the range of stream_file, ranges of one, two and three sizes,
\* a range of a single size and the widest range of the quality presets
BaseRangeChoices ==
    {basic_chunk_range, <<0, 0>>, <<1500, 1500>>, <<1000, 1001>>, <<1000, 1002>>,
     <<512, 4096>>}

GetOptimalChunkSize ==
    /\ pc = "monitor"
    /\ \E a \in Addrs, base_range \in BaseRangeChoices :
          /\ args' = [kind |-> "base_range", addr |-> a, base_range |-> base_range]
          /\ parsed' = [type |-> "range",
                        range |-> get_optimal_chunk_size(monitors[a], base_range)]
    /\ pc' = "chunk"
    /\ wire' = wire
    /\ UNCHANGED <<rx, recvVars, sendVars, held, rr, session, threads>>

NextChunk == RecordPacket \/ GetOptimalChunkSize

SpecChunk == InitMonitor /\ [][NextChunk]_vars

\* C30: get_optimal_chunk_size returns the lower third of the base range,
\* [min, min + (max-min)//3], when the estimate is below 100, the upper
\* half, [min + (max-min)//2, max], when it is above 300, and the base range
\* otherwise; the result is a non-empty sub-range of the base range.
C30_ChunkRange ==
    pc = "chunk" =>
        LET bandwidth == estimate_bandwidth(monitors[args.addr])
            min_size == args.base_range[1]
            max_size == args.base_range[2]
            lo == parsed.range[1]
            hi == parsed.range[2]
        IN  /\ min_size <= lo /\ lo <= hi /\ hi <= max_size
            /\ bandwidth.num < 100 * bandwidth.den =>
                   /\ lo = min_size
                   /\ 3 * (hi - min_size) <= max_size - min_size
                   /\ max_size - min_size < 3 * (hi - min_size) + 3
            /\ bandwidth.num > 300 * bandwidth.den =>
                   /\ hi = max_size
                   /\ 2 * (lo - min_size) <= max_size - min_size
                   /\ max_size - min_size < 2 * (lo - min_size) + 2
            /\ (bandwidth.num >= 100 * bandwidth.den /\ bandwidth.num <= 300 * bandwidth.den) =>
                   (lo = min_size /\ hi = max_size)

\* C30 witness: a proper lower third and a proper upper half were returned
C30_Witness ==
    /\ pc = "chunk"
    /\ args.base_range = <<512, 4096>>
    /\ parsed.range \in {<<512, 1706>>, <<2304, 4096>>}

----------------------------------------------------------------------------
(* Termination of the send loops *)

\* the sender threads are scheduled: a loop that can iterate does, and a
\* loop that has ended sends its END packet
\* (weak fairness of StreamFileAdaptiveSend is written out: AdaptiveLoopRuns
\* is the condition under which the action is enabled)
AdaptiveLoopRuns ==
    /\ pc = "send" /\ steps < MaxSends
    /\ \E s \in DOMAIN streams :
          /\ streams[s].state = "run" /\ streams[s].server = "adv"
          /\ streams[s].bytes_sent < streams[s].total_size

FairLoops ==
    /\ SpecSend
    /\ WF_vars(StreamFileSend)
    /\ ([]<>~AdaptiveLoopRuns \/ []<><<StreamFileAdaptiveSend>>_vars)
    /\ WF_vars(StreamFileEnd) /\ WF_vars(StreamFileAdaptiveEnd)

\* the file of stream s is sent in no more than MaxSends packets, whatever
\* chunk sizes are drawn
WithinSends(s) == streams[s].total_size <= 1000 * MaxSends

\* a step of a running send loop sends one DATA packet and adds its payload
\* to bytes_sent, or it leaves the loop
C31_Step ==
    \A s \in DOMAIN streams :
        LET st == streams[s]
            a == st.addr
        IN  (st.state = "run" /\ streams'[s] # st) =>
               \/ /\ streams'[s].state = "run"
                  /\ streams'[s].bytes_sent > st.bytes_sent
                  /\ Len(sent'[a]) = Len(sent[a]) + 1
                  /\ IsDataPacket(sent'[a][Len(sent'[a])])
                  /\ streams'[s].bytes_sent
                        = st.bytes_sent + PayloadLen(sent'[a][Len(sent'[a])])
               \/ streams'[s].state = "done"

C31_Bounded ==
    \A s \in DOMAIN streams :
        streams[s].state # "idle" => streams[s].bytes_sent <= streams[s].total_size

----------------------------------------------------------------------------
(* The buffer file of a receive session, under SpecLoop *)

\* the loop of _receive_stream has been left
LoopLeft == rx = "adv" /\ ac.ended_by # "none"

----------------------------------------------------------------------------
(* The out-of-order store, under SpecReasm *)

\* C33: after each packet is processed every key of the out-of-order store
\* is strictly greater than expected_sequence: a packet whose sequence is
\* below expected_sequence is not retained.
C33_StoreAhead == \A k \in DOMAIN Store : k > Expected

----------------------------------------------------------------------------
(* SpecRestart: after any deliveries of a stream, the client object is asked
   for another stream *)

\* UDPStreamingClient.request_media_file
RequestMediaFile ==
    /\ pc = "reasm" /\ rx = "basic"
    /\ uc' = request_media_file(uc)
    /\ pc' = "requested"
    /\ UNCHANGED <<rx, codecVars, vb, ac, arrivals, sendVars, held, rr, session, threads>>

\* AdvancedUDPVideoClient.stream_video
StreamVideo ==
    /\ pc = "reasm" /\ rx = "adv"
    /\ LET st == stream_video([ac |-> ac, vb |-> vb])
       IN  ac' = st.ac /\ vb' = st.vb
    /\ pc' = "requested"
    /\ UNCHANGED <<rx, codecVars, uc, arrivals, sendVars, held, rr, session, threads>>

\* the INFO branch of _receive_stream: the buffer file is opened for the
\* announced size and the local file_initialized is set
receive_info(st, total_size) ==
    [ac |-> [st.ac EXCEPT !.file_initialized = TRUE],
     vb |-> initialize_file(st.vb, total_size)]

\* the new receive thread of UDPStreamingClient takes the INFO message
BasicInfo ==
    /\ pc = "requested" /\ rx = "basic"
    /\ uc' = receive_stream(uc, info_msg(StreamSize(NumPackets)))
    /\ pc' = "reasm"
    /\ UNCHANGED <<rx, codecVars, vb, ac, arrivals, sendVars, held, rr, session, threads>>

\* the new receive thread of AdvancedUDPVideoClient takes its INFO branch
AdvInfo ==
    /\ pc = "requested" /\ rx = "adv"
    /\ LET st == receive_info([ac |-> ac, vb |-> vb], StreamSize(NumPackets))
       IN  ac' = st.ac /\ vb' = st.vb
    /\ pc' = "reasm"
    /\ UNCHANGED <<rx, codecVars, uc, arrivals, sendVars, held, rr, session, threads>>

NextRestart ==
    \/ BasicDeliver
    \/ AdvDeliver
    \/ RequestMediaFile
    \/ StreamVideo
    \/ BasicInfo
    \/ AdvInfo

SpecRestart == InitReasm /\ [][NextRestart]_vars

\* C34: every new stream request starts reassembly from a fresh receive
\* buffer: expected_sequence is the stream's starting value, bytes_received
\* is 0 and the out-of-order store is empty, whatever the client object
\* received before.
C34_FreshBuffer ==
    pc = "requested" =>
        /\ Expected = StartSeq(rx)
        /\ BytesReceived = 0
        /\ Store = EmptyDict

----------------------------------------------------------------------------
(* The samples a session reads, under SpecSend *)

\* the monitor of the address of stream s, restricted to the sends recorded
\* by s itself: its last packet_count samples
OwnMonitor(s) ==
    LET m == monitors[streams[s].addr]
        n == Len(m.packet_times)
        k == Min(streams[s].packet_count, n)
    IN  [packet_times  |-> SubSeq(m.packet_times, n - k + 1, n),
         total_packets |-> k]

\* C35: the chunk-size range and the pacing delay chosen for a session
\* depend only on the sends recorded by that session: samples recorded by
\* another session, an earlier one to the same address among them, are not
\* read.
C35_OwnSamplesOnly ==
    \A s \in DOMAIN streams :
        LET st == streams[s]
        IN  (st.state = "run" /\ st.server = "adv") =>
               /\ st.bytes_sent < st.total_size =>
                      get_optimal_chunk_size(monitors[st.addr], st.range)
                         = get_optimal_chunk_size(OwnMonitor(s), st.range)
               /\ st.packet_count > 0 =>
                      adaptive_delay(monitors[st.addr]) = adaptive_delay(OwnMonitor(s))

----------------------------------------------------------------------------
(* The packet types of AdvancedUDPVideoServer on the wire, under SpecSession *)

\* the type names AdvancedUDPVideoServer passes to create_packet
PacketTypes == {"D", "E", "INFO", "ERROR"}

\* the type byte create_packet writes for a type name
TypeByte(packet_type) == create_packet(packet_type, 0, <<>>, 0, 0)[1].v

\* the INFO packet start_video_stream sends for the stream
StreamInfoPacket ==
    create_packet("INFO", 0, JsonBody(StreamSize(NumPackets)), StreamSize(NumPackets), 0)

\* C36: the packet types DATA, END, INFO and ERROR have pairwise distinct
\* type bytes on the wire and the receiver dispatches each to its own
\* handler: an ERROR packet of the server is not treated as END, and an INFO
\* packet of the server is recognised as INFO.
C36_TypesDispatched ==
    /\ \A t, u \in PacketTypes : t # u => TypeByte(t) # TypeByte(u)
    /\ (rx = "adv" /\ Len(arrivals) > 0) =>
          LET data == arrivals[Len(arrivals)]
          IN  /\ data = not_found_packet => ac.ended_by # "E"
              /\ data = StreamInfoPacket => ac.file_initialized

----------------------------------------------------------------------------
(* The byte counter of the receive buffer, under SpecRestart *)

\* C37: bytes_received always equals the number of bytes written to the
\* output file: bytes held in the out-of-order store are not counted, and no
\* byte is counted that was not written.
C37_CountedIsWritten == BytesReceived = BLen(Output)

----------------------------------------------------------------------------
(* The bytes a send loop has put on the wire, under SpecSend *)

\* the payload of the DATA packet with sequence number q sent to address a,
\* empty when there is none
PayloadOfSeq(a, q) ==
    LET I == {i \in DataSent(a) : SentHeader(sent[a][i]).s = q}
    IN  IF I = {} THEN <<>> ELSE BDrop(sent[a][CHOOSE i \in I : TRUE], HeaderSize)

\* the payloads of the DATA packets sent to a with sequence numbers below q,
\* concatenated in sequence order
RECURSIVE PayloadsBelow(_, _)
PayloadsBelow(a, q) ==
    IF q = 0 THEN <<>> ELSE Cat(PayloadsBelow(a, q - 1), PayloadOfSeq(a, q - 1))

\* C38: at every point of a send loop the concatenation, in sequence order,
\* of the payloads of the DATA packets sent so far is the prefix of the
\* source file of length bytes_sent; once END is sent after the file is
\* exhausted it is the whole file.
C38_PayloadsArePrefix ==
    \A s \in DOMAIN streams :
        LET st == streams[s]
        IN  st.state # "idle" =>
               /\ PayloadsBelow(st.addr, st.seq_num) = FileSlice(0, st.bytes_sent)
               /\ st.state = "done" =>
                      PayloadsBelow(st.addr, st.seq_num) = FileSlice(0, st.total_size)

\* C38 witness: a stream has sent a file of 2700 bytes in DATA packets of
\* different payload lengths and then END
C38_Witness ==
    \E s \in DOMAIN streams :
        LET st == streams[s]
        IN  /\ st.state = "done" /\ st.total_size = 2700
            /\ IsStreamEnd(sent[st.addr][Len(sent[st.addr])])
            /\ \E i, j \in DataSent(st.addr) :
                   PayloadLen(sent[st.addr][i]) # PayloadLen(sent[st.addr][j])
            /\ PayloadsBelow(st.addr, st.seq_num) = FileSlice(0, 2700)

----------------------------------------------------------------------------
(* SpecComplete: the DATA packets of one stream reach the reassembly step in
   any order, any number of times, and the END packet is taken at some point *)

\* receive_stream takes its END branch
BasicEnd ==
    /\ pc = "reasm" /\ rx = "basic"
    /\ uc' = leave_receive_loop([uc EXCEPT !.streaming_complete = TRUE])
    /\ pc' = "ended"
    /\ UNCHANGED <<rx, codecVars, vb, ac, arrivals, sendVars, held, rr, session, threads>>

\* _receive_stream takes the END packet of the stream
AdvEnd ==
    /\ pc = "reasm" /\ rx = "adv"
    /\ ac.streaming
    /\ LET end_packet == create_packet("E", StartSeq("adv") + NumPackets, <<>>,
                                       StreamSize(NumPackets), StreamSize(NumPackets))
           st == _receive_stream([ac |-> ac, vb |-> vb], end_packet, FALSE)
       IN  ac' = st.ac /\ vb' = st.vb
    /\ pc' = "ended"
    /\ UNCHANGED <<rx, codecVars, uc, arrivals, sendVars, held, rr, session, threads>>

NextComplete == BasicDeliver \/ AdvDeliver \/ BasicEnd \/ AdvEnd

SpecComplete == InitReasm /\ [][NextComplete]_vars

\* every DATA packet of the stream was delivered at least once
AllDelivered ==
    \A i \in 0..(NumPackets - 1) :
        \E j \in 1..Len(arrivals) : arrivals[j] = StartSeq(rx) + i

\* C39: if every DATA packet of the stream is delivered at least once, in any
\* order, and END after all of them, then when END is processed
\* expected_sequence is one past the last DATA sequence number and the output
\* file is the concatenation of all DATA payloads in sequence order.
C39_CompleteDelivery ==
    (pc = "ended" /\ AllDelivered) =>
        /\ Expected = StartSeq(rx) + NumPackets
        /\ Output = StreamPrefix(NumPackets)

\* C39 witness: END is processed after every DATA packet arrived, the last
\* one before the first and one of them twice
C39_Witness ==
    /\ pc = "ended" /\ AllDelivered
    /\ arrivals[1] = StartSeq(rx) + NumPackets - 1
    /\ Len(arrivals) > NumPackets
    /\ Output = StreamPrefix(NumPackets)

----------------------------------------------------------------------------
(* SpecThreads: stream_video and stop_streaming are called in any order on one
   AdvancedUDPVideoClient; every thread stream_video started runs the loop
   of _receive_stream on the client's socket and VideoBuffer.  ac.streaming
   is self.streaming; a thread is at "check" (the while condition), at
   "recv" (inside recvfrom) or has "left"; locals are its locals, took the
   streams whose datagrams it processed (thread t was started for stream t) *)

MaxThreads == 2

\* the datagrams the server sends for a stream
ThreadDatagrams ==
    {StreamInfoPacket,
     create_packet("D", 1, StreamPayload(0), StreamSize(NumPackets), OffsetAt(0)),
     create_packet("E", NumPackets + 1, <<>>, StreamSize(NumPackets),
                   StreamSize(NumPackets))}

InitThreads ==
    /\ RTPIdle
    /\ RTSPIdle
    /\ pc = "threads"
    /\ rx = "adv"
    /\ CodecIdle
    /\ uc = UDPStreamingClient_init
    /\ vb = VideoBuffer_init
    /\ ac = [AdvancedUDPVideoClient_init EXCEPT !.streaming = FALSE]
    /\ arrivals = <<>>
    /\ SendersIdle
    /\ threads = <<>>

\* stream_video: self.streaming = True and a new thread is started
CallStreamVideo ==
    /\ pc = "threads"
    /\ Len(threads) < MaxThreads
    /\ LET st == stream_video([ac |-> ac, vb |-> vb])
       IN  /\ ac' = st.ac
           /\ vb' = st.vb
           /\ threads' = Append(threads, [at |-> "check", locals |-> st.ac, took |-> {}])
    /\ UNCHANGED <<pc, rx, codecVars, uc, arrivals, sendVars, held, rr, session>>

\* stop_streaming: self.streaming = False; the join returns when the thread
\* has ended or after 5 seconds, while recvfrom may block for 30
CallStopStreaming ==
    /\ pc = "threads"
    /\ ac.streaming
    /\ ac' = [ac EXCEPT !.streaming = FALSE]
    /\ UNCHANGED <<pc, rx, codecVars, uc, vb, arrivals, sendVars, held, rr, session, threads>>

\* while self.streaming: the thread enters recvfrom, or leaves the loop and
\* runs the finally clause
ThreadCheck ==
    /\ pc = "threads"
    /\ \E t \in DOMAIN threads :
          /\ threads[t].at = "check"
          /\ IF ac.streaming
             THEN /\ threads' = [threads EXCEPT ![t].at = "recv"]
                  /\ UNCHANGED <<ac, vb>>
             ELSE LET st == leave_receive_stream([ac |-> [threads[t].locals EXCEPT
                                                             !.streaming = ac.streaming],
                                                  vb |-> vb], "stopped")
                  IN  /\ threads' = [threads EXCEPT ![t].at = "left",
                                                    ![t].locals = st.ac]
                      /\ ac' = [ac EXCEPT !.streaming = st.ac.streaming]
                      /\ vb' = st.vb
    /\ UNCHANGED <<pc, rx, codecVars, uc, arrivals, sendVars, held, rr, session>>

\* recvfrom returns a datagram of stream k to thread t, which processes it
ThreadReceive ==
    /\ pc = "threads"
    /\ \E t \in DOMAIN threads, k \in DOMAIN threads, data \in ThreadDatagrams :
          /\ threads[t].at = "recv"
          /\ LET st == _receive_stream([ac |-> [threads[t].locals EXCEPT
                                                   !.streaming = ac.streaming],
                                        vb |-> vb], data, TRUE)
             IN  /\ threads' = [threads EXCEPT
                                   ![t].at = IF st.ac.ended_by # "none" THEN "left"
                                             ELSE "check",
                                   ![t].locals = st.ac,
                                   ![t].took = @ \cup {k}]
                 /\ ac' = [ac EXCEPT !.streaming = st.ac.streaming]
                 /\ vb' = st.vb
    /\ UNCHANGED <<pc, rx, codecVars, uc, arrivals, sendVars, held, rr, session>>

\* except socket.timeout: continue
ThreadTimeout ==
    /\ pc = "threads"
    /\ \E t \in DOMAIN threads :
          /\ threads[t].at = "recv"
          /\ threads' = [threads EXCEPT ![t].at = "check"]
    /\ UNCHANGED <<pc, rx, codecVars, recvVars, sendVars, held, rr, session>>

NextThreads ==
    \/ CallStreamVideo
    \/ CallStopStreaming
    \/ ThreadCheck
    \/ ThreadReceive
    \/ ThreadTimeout

SpecThreads == InitThreads /\ [][NextThreads]_vars

\* the threads that have not left the loop of _receive_stream
ActiveLoops == {t \in DOMAIN threads : threads[t].at # "left"}

\* C40: for any sequence of stream_video and stop_streaming calls at most one
\* receive loop is active on a client at any time, a loop that was stopped
\* processes no packet of a later stream, and two loops never read the
\* socket (nor update the VideoBuffer) at the same time.
C40_OneReceiveLoop ==
    /\ Cardinality(ActiveLoops) <= 1
    /\ \A t \in DOMAIN threads : \A k \in threads[t].took : k <= t
    /\ Cardinality({t \in DOMAIN threads : threads[t].at = "recv"}) <= 1

====
